---- MODULE Spec2Model ----
(***************************************************************************)
(* Orchestration core of scraparr: the Scheduler (trigger registry,        *)
(* add_job / remove_job, the firing wrapper), the job endpoints that drive *)
(* it, the Task Executor (ScraperRunner.run_scraper) with the plugin       *)
(* lifecycle, and the Progress Broadcaster maps.                           *)
(*                                                                         *)
(* Every `await` of the code is a step boundary: the statements between    *)
(* two awaits of one coroutine form one action.                            *)
(***************************************************************************)
EXTENDS Integers, Sequences, FiniteSets, TLC

VARIABLES
    now,          \* datetime.utcnow(), in seconds
    scrapers,     \* table "scrapers": id -> row
    jobs,         \* table "jobs": id -> row
    nextJobId,    \* the jobs table's id sequence
    registry,     \* the trigger engine's job store: a set of entries
    reqs,         \* job endpoint / add_job coroutines in flight
    calls,        \* invocations of _execute_scraper / run endpoints (a sequence)
    executions,   \* table "executions": a sequence of committed rows, id = index
    subscribers,  \* ProgressTracker._subscribers: execution id -> set of websockets
    progress,     \* ProgressTracker._progress: set of execution ids with a snapshot
    crawl,        \* a grid crawler plugin: its run, its tables, the external source
    tracker       \* ProgressTracker: lock, callers in flight, what each websocket received

vars == <<now, scrapers, jobs, nextJobId, registry, reqs, calls, executions,
          subscribers, progress, crawl, tracker>>

----------------------------------------------------------------------------
(* Bounds of the model *)

MaxJobs == 2
MaxCalls == 1
MaxLogs == 2
MaxItems == 1
MaxCreated == 1
NParts == 3
MaxRuns == 2
MaxUpdates == 4
MaxReports == 1
MaxTasks == 5

JobIds == 1..MaxJobs
ScraperIds == {1}
ReqIds == {1, 2}
ParamSets == {"p1", "p2"}

----------------------------------------------------------------------------
(* Generic helpers *)

Max(a, b) == IF a >= b THEN a ELSE b

IsPrefix(s, t) == Len(s) <= Len(t) /\ SubSeq(t, 1, Len(s)) = s

\* Python None for an optional timestamp column
NoTime == -1

----------------------------------------------------------------------------
(* Schedule configurations.  A configuration is a dict: a record whose     *)
(* domain is the set of keys present.  A cron expression is a string: a    *)
(* tuple of one-character strings.                                         *)

Expr5 == <<"0", " ", "*", " ", "*", " ", "*", " ", "*">>
Expr5Spaced == <<" ", "0", " ", " ", "*", " ", "*", " ", "*", " ", "*", " ">>
Expr4 == <<"0", " ", "*", " ", "*", " ", "*">>
Expr6 == <<"0", " ", "*", " ", "*", " ", "*", " ", "*", " ", "*">>
ExprEmpty == <<>>

\* (schedule_type, schedule_config) pairs handed to add_job
Schedules == <<
    [schedule_type |-> "cron",     schedule_config |-> [expression |-> Expr5]],
    [schedule_type |-> "cron",     schedule_config |-> [expression |-> Expr5Spaced]],
    [schedule_type |-> "cron",     schedule_config |-> [expression |-> Expr4]],
    [schedule_type |-> "cron",     schedule_config |-> [expression |-> Expr6]],
    [schedule_type |-> "cron",     schedule_config |-> [expression |-> ExprEmpty]],
    [schedule_type |-> "cron",     schedule_config |-> [seconds |-> 2]],
    [schedule_type |-> "interval", schedule_config |-> [seconds |-> 2]],
    [schedule_type |-> "interval", schedule_config |-> [minutes |-> 1, seconds |-> 2]],
    [schedule_type |-> "interval", schedule_config |-> [hours |-> 1]],
    [schedule_type |-> "interval", schedule_config |-> [expression |-> Expr5]],
    [schedule_type |-> "once",     schedule_config |-> [run_at |-> 5]],
    [schedule_type |-> "once",     schedule_config |-> [delay_seconds |-> 2]],
    [schedule_type |-> "once",     schedule_config |-> [seconds |-> 2]],
    [schedule_type |-> "weekly",   schedule_config |-> [seconds |-> 2]]
>>

\* The pairs the job endpoints let through: JobBase / JobUpdate restrict
\* schedule_type to cron|interval|once, the configuration is any dict.
ApiSchedules == <<
    [schedule_type |-> "interval", schedule_config |-> [seconds |-> 2]],
    [schedule_type |-> "cron",     schedule_config |-> [expression |-> Expr4]],
    [schedule_type |-> "once",     schedule_config |-> [delay_seconds |-> 2]]
>>

----------------------------------------------------------------------------
(* SchedulerService._create_trigger *)

IsSpace(c) == c = " "

\* str.split(): the maximal runs of non-whitespace characters, in order.
\* cur is the run being read (as a tuple of characters).
RECURSIVE SplitFrom(_, _, _)
SplitFrom(s, i, cur) ==
    IF i > Len(s)
    THEN IF cur = <<>> THEN <<>> ELSE <<cur>>
    ELSE IF IsSpace(s[i])
         THEN IF cur = <<>>
              THEN SplitFrom(s, i + 1, <<>>)
              ELSE <<cur>> \o SplitFrom(s, i + 1, <<>>)
         ELSE SplitFrom(s, i + 1, Append(cur, s[i]))

split(s) == SplitFrom(s, 1, <<>>)

\* Triggers of the engine.  fields: the cron fields, or the interval's unit;
\* n: the interval's length, or the date trigger's run date.
NoTrigger == [kind |-> "none", fields |-> <<>>, n |-> 0]
CronTrigger(parts) == [kind |-> "cron", fields |-> parts, n |-> 0]
IntervalTrigger(unit, v) == [kind |-> "interval", fields |-> <<unit>>, n |-> v]
DateTrigger(run_date) == [kind |-> "date", fields |-> <<>>, n |-> run_date]

Raised(type) == [ok |-> FALSE, error |-> type, trigger |-> NoTrigger]
Built(t) == [ok |-> TRUE, error |-> "", trigger |-> t]

\* schedule_config.get("expression"): None when the key is absent; `not
\* expression` holds of None and of the empty string alike.
GetExpression(schedule_config) ==
    IF "expression" \in DOMAIN schedule_config
    THEN schedule_config.expression
    ELSE <<>>

\* t is datetime.utcnow() at the call
create_trigger(schedule_type, schedule_config, t) ==
    IF schedule_type = "cron"
    THEN LET expression == GetExpression(schedule_config)
             parts == split(expression)
         IN  IF expression = <<>> THEN Raised("ValueError")
             ELSE IF Len(parts) # 5 THEN Raised("ValueError")
             ELSE Built(CronTrigger(parts))
    ELSE IF schedule_type = "interval"
    THEN IF "seconds" \in DOMAIN schedule_config
         THEN Built(IntervalTrigger("seconds", schedule_config.seconds))
         ELSE IF "minutes" \in DOMAIN schedule_config
         THEN Built(IntervalTrigger("minutes", schedule_config.minutes))
         ELSE IF "hours" \in DOMAIN schedule_config
         THEN Built(IntervalTrigger("hours", schedule_config.hours))
         ELSE IF "days" \in DOMAIN schedule_config
         THEN Built(IntervalTrigger("days", schedule_config.days))
         ELSE Raised("ValueError")
    ELSE IF schedule_type = "once"
    THEN IF "run_at" \in DOMAIN schedule_config
         THEN Built(DateTrigger(schedule_config.run_at))
         ELSE IF "delay_seconds" \in DOMAIN schedule_config
         THEN Built(DateTrigger(t + schedule_config.delay_seconds))
         ELSE Raised("ValueError")
    ELSE Raised("ValueError")

----------------------------------------------------------------------------
(* The trigger engine's job store, as SchedulerService uses it *)

\* f"job_{job_id}"; None is the empty tuple
SchedulerJobId(job_id) == <<"job_", job_id>>
NoId == <<>>

UnitSeconds(unit) ==
    CASE unit = "seconds" -> 1
      [] unit = "minutes" -> 60
      [] unit = "hours" -> 3600
      [] unit = "days" -> 86400

\* The trigger's next fire time after instant `after` (Job.next_run_time).
\* The cron expressions of the model differ in the minute field only.
fire_time(trigger, after) ==
    CASE trigger.kind = "cron" ->
            IF trigger.fields[1] = "*"
            THEN ((after \div 60) + 1) * 60
            ELSE ((after \div 3600) + 1) * 3600
      [] trigger.kind = "interval" ->
            after + Max(trigger.n * UnitSeconds(trigger.fields[1]), 1)
      [] trigger.kind = "date" -> trigger.n

Entry(job_id, scraper_id, params, trigger, t) ==
    [id |-> SchedulerJobId(job_id),
     trigger |-> trigger,
     next_run_time |-> fire_time(trigger, t),
     kwargs |-> [job_id |-> job_id, scraper_id |-> scraper_id, params |-> params]]

TriggersOf(reg, id) == {e \in reg : e.id = id}

\* SchedulerService.remove_job: absence is not an error
remove_job(reg, scheduler_job_id) == {e \in reg : e.id # scheduler_job_id}

\* self._scheduler.add_job(..., id=scheduler_job_id, replace_existing=True)
scheduler_add_job(reg, entry) == {e \in reg : e.id # entry.id} \cup {entry}

\* self._scheduler.get_job(id).next_run_time, NoTime when there is no such job
get_next_run_time(reg, id) ==
    IF TriggersOf(reg, id) = {} THEN NoTime
    ELSE (CHOOSE e \in TriggersOf(reg, id) : TRUE).next_run_time

add_job_registry_mut_order(reg, job_id, scraper_id, schedule_type, schedule_config, params, t) ==
    LET res == create_trigger(schedule_type, schedule_config, t)
    IN  IF ~res.ok THEN remove_job(reg, SchedulerJobId(job_id))
        ELSE remove_job(scheduler_add_job(reg,
                 Entry(job_id, scraper_id, params, res.trigger, t)),
                 SchedulerJobId(job_id))

add_job_registry_mut_validate(reg, job_id, scraper_id, schedule_type, schedule_config, params, t) ==
    LET res == create_trigger(schedule_type, schedule_config, t)
    IN  IF ~res.ok THEN reg
        ELSE scheduler_add_job(remove_job(reg, SchedulerJobId(job_id)),
                 Entry(job_id, scraper_id, params, res.trigger, t))

\* add_job, lines 79-98: the registry after the synchronous part of the call
add_job_registry(reg, job_id, scraper_id, schedule_type, schedule_config, params, t) ==
    LET removed == remove_job(reg, SchedulerJobId(job_id))
        res == create_trigger(schedule_type, schedule_config, t)
    IN  IF ~res.ok THEN removed
        ELSE scheduler_add_job(removed,
                 Entry(job_id, scraper_id, params, res.trigger, t))

----------------------------------------------------------------------------
(* Rows and coroutines *)

EmptyDict == [k \in {} |-> 0]

NoJob ==
    [exists |-> FALSE, scraper_id |-> 0, schedule_type |-> "",
     schedule_config |-> EmptyDict, params |-> "", is_active |-> FALSE,
     scheduler_job_id |-> NoId, last_run_at |-> NoTime, next_run_at |-> NoTime]

JobRow(scraper_id, schedule_type, schedule_config, params, is_active) ==
    [exists |-> TRUE, scraper_id |-> scraper_id, schedule_type |-> schedule_type,
     schedule_config |-> schedule_config, params |-> params, is_active |-> is_active,
     scheduler_job_id |-> NoId, last_run_at |-> NoTime, next_run_at |-> NoTime]

NoUpdate == [is_active |-> "unset", sched |-> 0, params |-> "unset"]

\* A coroutine of a job endpoint or a direct caller of add_job.  job holds the
\* session's Job object (the attributes as last loaded), upd the JobUpdate;
\* before records the values update_job overwrites, had_trigger whether the
\* job had a trigger when add_job was called.
NoBefore == [is_active |-> "unset", schedule |-> <<>>, params |-> "unset"]

IdleReq ==
    [op |-> "none", pc |-> "idle", job_id |-> 0, job |-> NoJob, upd |-> NoUpdate,
     next_run |-> NoTime, had_trigger |-> FALSE, error |-> "", status |-> 0,
     before |-> NoBefore]

ScraperRow(is_active, module_path, class_name) ==
    [exists |-> TRUE, is_active |-> is_active, module_path |-> module_path,
     class_name |-> class_name]

NoScraper == [exists |-> FALSE, is_active |-> FALSE, module_path |-> "", class_name |-> ""]

\* The Execution object of a run_scraper call / a row of table "executions"
NewExecution(scraper_id, job_id, params) ==
    [scraper_id |-> scraper_id, job_id |-> job_id, params |-> params,
     status |-> "running", items_scraped |-> 0, error_message |-> "None",
     completed_at |-> NoTime, logs |-> <<"None">>]

NoExc == [type |-> "", msg |-> ""]

\* No crawler plugin is part of the behaviour
NoCrawl == [pc |-> "none"]

\* ProgressTracker.__init__ (no websocket has connected, the lock is free)
IdleTracker == [pc |-> "none"]

\* BaseScraper.__init__: execution_id: Optional[int] = None
NoExecutionId == 0

\* One invocation that ends in run_scraper: the trigger engine's call of
\* _execute_scraper (origin "scheduler") or the run_job endpoint (origin
\* "run_job").  execution is the session's Execution object, logs the plugin
\* instance's log list.  The fields from trace on record what happened.
NewCall(origin, job_id, scraper_id, params) ==
    [origin |-> origin, pc |-> "start", job_id |-> job_id, scraper_id |-> scraper_id,
     params |-> params, exec_id |-> 0,
     execution |-> NewExecution(scraper_id, job_id, params),
     module_path |-> "", class_name |-> "",
     instance |-> FALSE, self_execution_id |-> 0, reports |-> 0,
     logs |-> <<>>, results |-> <<>>, e |-> NoExc,
     raising |-> "", outcome |-> "",
     trace |-> <<>>, after_arg |-> <<>>, pre_logs |-> <<>>, failed_in |-> "",
     hook_error |-> FALSE, cleanup_error |-> FALSE, cancelled |-> FALSE,
     commits |-> 0, last_run_at |-> NoTime, next_run_at |-> NoTime,
     fired_kind |-> "", fired_at |-> NoTime]

----------------------------------------------------------------------------
(* SchedulerService.add_job as a coroutine: the synchronous part up to the  *)
(* first await (lines 79-103), then the update of the job row (105-110).   *)

\* q is the calling coroutine's record at the call
AddJobEffect(r, q) ==
    LET res == create_trigger(q.job.schedule_type, q.job.schedule_config, now)
        reg == add_job_registry(registry, q.job_id, q.job.scraper_id,
                   q.job.schedule_type, q.job.schedule_config, q.job.params, now)
        had == TriggersOf(registry, SchedulerJobId(q.job_id)) # {}
    IN  /\ registry' = reg
        /\ IF res.ok
           THEN reqs' = [reqs EXCEPT ![r] =
                    [q EXCEPT !.pc = "add_job_db",
                              !.had_trigger = had,
                              !.next_run =
                                  get_next_run_time(reg, SchedulerJobId(q.job_id))]]
           ELSE reqs' = [reqs EXCEPT ![r] =
                    [q EXCEPT !.pc = "add_job_raised",
                              !.had_trigger = had,
                              !.error = res.error]]

AddJobSync(r) ==
    /\ reqs[r].pc = "add_job"
    /\ AddJobEffect(r, reqs[r])
    /\ UNCHANGED <<now, scrapers, jobs, nextJobId, calls, executions, subscribers, progress, crawl, tracker>>

\* select(Job) answers with the session's Job object when the row exists; the
\* commit writes the two assigned columns.
AddJobDb(r) ==
    /\ reqs[r].pc = "add_job_db"
    /\ LET q == reqs[r]
           id == SchedulerJobId(q.job_id)
       IN  /\ jobs' = IF jobs[q.job_id].exists
                      THEN [jobs EXCEPT ![q.job_id].next_run_at = q.next_run,
                                        ![q.job_id].scheduler_job_id = id]
                      ELSE jobs
           /\ reqs' = [reqs EXCEPT ![r].pc = "add_job_returned",
                           ![r].job.next_run_at =
                               IF jobs[q.job_id].exists THEN q.next_run
                               ELSE q.job.next_run_at,
                           ![r].job.scheduler_job_id =
                               IF jobs[q.job_id].exists THEN id
                               ELSE q.job.scheduler_job_id]
    /\ UNCHANGED <<now, scrapers, nextJobId, registry, calls, executions, subscribers, progress, crawl, tracker>>

\* A caller of the service outside the job endpoints (reload_jobs calls add_job
\* this way, once per row, with the row's columns).
CallAddJob(r, j, i) ==
    /\ reqs[r].pc = "idle"
    /\ reqs' = [reqs EXCEPT ![r] =
           [IdleReq EXCEPT !.op = "add_job", !.pc = "add_job", !.job_id = j,
                !.job = JobRow(1, Schedules[i].schedule_type,
                               Schedules[i].schedule_config, jobs[j].params, TRUE)]]
    /\ UNCHANGED <<now, scrapers, jobs, nextJobId, registry, calls, executions, subscribers, progress, crawl, tracker>>

CallAddJobEnd(r) ==
    /\ reqs[r].op = "add_job"
    /\ reqs[r].pc \in {"add_job_returned", "add_job_raised"}
    /\ reqs' = [reqs EXCEPT ![r] = IdleReq]
    /\ UNCHANGED <<now, scrapers, jobs, nextJobId, registry, calls, executions, subscribers, progress, crawl, tracker>>

CallRemoveJob(j) ==
    /\ registry' = remove_job(registry, SchedulerJobId(j))
    /\ UNCHANGED <<now, scrapers, jobs, nextJobId, reqs, calls, executions, subscribers, progress, crawl, tracker>>

----------------------------------------------------------------------------
(* The trigger engine fires an entry: it runs the registered function      *)
(* (_execute_scraper) with the entry's kwargs.  A date trigger has no       *)
(* further fire time and leaves the store; any other trigger stays, with   *)
(* its next fire time.                                                     *)

Fire(e) ==
    /\ e \in registry
    /\ Len(calls) < MaxCalls
    /\ LET t == Max(now, e.next_run_time)
       IN  /\ now' = t
           /\ registry' =
                 IF e.trigger.kind = "date"
                 THEN registry \ {e}
                 ELSE (registry \ {e}) \cup
                      {[e EXCEPT !.next_run_time = fire_time(e.trigger, t)]}
           /\ calls' = Append(calls,
                  [NewCall("scheduler", e.kwargs.job_id, e.kwargs.scraper_id,
                           e.kwargs.params)
                      EXCEPT !.fired_kind = e.trigger.kind, !.fired_at = t])
    /\ UNCHANGED <<scrapers, jobs, nextJobId, reqs, executions, subscribers, progress, crawl, tracker>>

----------------------------------------------------------------------------
(* SpecTrig: the Scheduler driven directly through add_job / remove_job *)

InitTrig ==
    /\ now = 0
    /\ scrapers = [s \in ScraperIds |-> ScraperRow(TRUE, "scrapers.ok", "Good")]
    /\ jobs = [j \in JobIds |->
                  JobRow(1, Schedules[1].schedule_type, Schedules[1].schedule_config,
                         "p1", TRUE)]
    /\ nextJobId = MaxJobs + 1
    /\ registry = {}
    /\ reqs = [r \in ReqIds |-> IdleReq]
    /\ calls = <<>>
    /\ executions = <<>>
    /\ subscribers = EmptyDict
    /\ progress = {}
    /\ crawl = NoCrawl
    /\ tracker = IdleTracker

NextTrig ==
    \/ \E j \in JobIds, i \in 1..Len(Schedules) : CallAddJob(1, j, i)
    \/ \E r \in ReqIds : AddJobSync(r)
    \/ \E r \in ReqIds : AddJobDb(r)
    \/ \E r \in ReqIds : CallAddJobEnd(r)
    \/ \E j \in JobIds : CallRemoveJob(j)
    \/ \E e \in registry : Fire(e)

SpecTrig == InitTrig /\ [][NextTrig]_vars

----------------------------------------------------------------------------
(* The job endpoints (api/jobs.py).  A step of an endpoint is one awaited   *)
(* database operation together with the code that runs, without yielding,  *)
(* up to the next await.                                                   *)

\* The endpoint has answered; the slot keeps the HTTP status of the answer.
Response(q, status) ==
    [IdleReq EXCEPT !.status = status]

\* JobUpdate, model_dump(exclude_unset=True): is_active alone, or the
\* schedule (type and configuration) alone
Updates ==
    {[NoUpdate EXCEPT !.is_active = "false"], [NoUpdate EXCEPT !.is_active = "true"]}
        \cup {[NoUpdate EXCEPT !.sched = i] : i \in 1..Len(ApiSchedules)}

\* JobUpdate with params alone
ParamUpdates == {[NoUpdate EXCEPT !.params = "p2"]}

\* The attributes of job that upd is about to overwrite
overwritten(job, upd) ==
    [is_active |-> IF upd.is_active = "unset" THEN "unset"
                   ELSE IF job.is_active THEN "true" ELSE "false",
     schedule |-> IF upd.sched = 0 THEN <<>>
                  ELSE <<job.schedule_type, job.schedule_config>>,
     params |-> IF upd.params = "unset" THEN "unset" ELSE job.params]

\* for field, value in update_data.items(): setattr(job, field, value)
setattrs(job, upd) ==
    LET j1 == IF upd.is_active = "unset" THEN job
              ELSE [job EXCEPT !.is_active = (upd.is_active = "true")]
        j2 == IF upd.params = "unset" THEN j1 ELSE [j1 EXCEPT !.params = upd.params]
    IN  IF upd.sched = 0 THEN j2
        ELSE [j2 EXCEPT !.schedule_type = ApiSchedules[upd.sched].schedule_type,
                        !.schedule_config = ApiSchedules[upd.sched].schedule_config]

Creating == {r \in ReqIds : reqs[r].pc = "cj_commit"}

\* create_job, lines 63-76: the task lookup, 404 when it is missing
CJ_Select(r, sid, i, active) ==
    /\ reqs[r].pc = "idle"
    /\ nextJobId + Cardinality(Creating) <= MaxCreated
    /\ LET q == [IdleReq EXCEPT !.op = "create_job"]
       IN  IF sid \in ScraperIds /\ scrapers[sid].exists
           THEN reqs' = [reqs EXCEPT ![r] =
                    [q EXCEPT !.pc = "cj_commit",
                              !.job = JobRow(sid, ApiSchedules[i].schedule_type,
                                         ApiSchedules[i].schedule_config, "p1", active)]]
           ELSE reqs' = [reqs EXCEPT ![r] = Response(q, 404)]
    /\ UNCHANGED <<now, scrapers, jobs, nextJobId, registry, calls, executions, subscribers, progress, crawl, tracker>>

\* Line 77: the INSERT assigns the id
CJ_Commit(r) ==
    /\ reqs[r].pc = "cj_commit"
    /\ jobs' = [jobs EXCEPT ![nextJobId] = reqs[r].job]
    /\ nextJobId' = nextJobId + 1
    /\ reqs' = [reqs EXCEPT ![r].job_id = nextJobId, ![r].pc = "cj_refresh"]
    /\ UNCHANGED <<now, scrapers, registry, calls, executions, subscribers, progress, crawl, tracker>>

\* Lines 78-90: the refresh, then add_job up to its first await when the job
\* is active; a ValueError of add_job is caught at line 91.
CJ_Refresh(r) ==
    /\ reqs[r].pc = "cj_refresh"
    /\ LET q == reqs[r]
           row == jobs[q.job_id]
       IN  IF ~row.exists
           THEN /\ reqs' = [reqs EXCEPT ![r] = Response(q, 500)]
                /\ UNCHANGED registry
           ELSE IF row.is_active
           THEN AddJobEffect(r, [q EXCEPT !.job = row])
           ELSE /\ reqs' = [reqs EXCEPT ![r] = [q EXCEPT !.job = row, !.pc = "cj_return"]]
                /\ UNCHANGED registry
    /\ UNCHANGED <<now, scrapers, jobs, nextJobId, calls, executions, subscribers, progress, crawl, tracker>>

CJ_Rollback_mut_keep(r) ==
    /\ reqs[r].op = "create_job"
    /\ reqs[r].pc = "add_job_raised"
    /\ jobs' = jobs
    /\ reqs' = [reqs EXCEPT ![r] = Response(reqs[r], 400)]
    /\ UNCHANGED <<now, scrapers, nextJobId, registry, calls, executions, subscribers, progress, crawl, tracker>>

\* Lines 91-98: the job row is deleted again, the answer is 400
CJ_Rollback(r) ==
    /\ reqs[r].op = "create_job"
    /\ reqs[r].pc = "add_job_raised"
    /\ jobs' = [jobs EXCEPT ![reqs[r].job_id] = NoJob]
    /\ reqs' = [reqs EXCEPT ![r] = Response(reqs[r], 400)]
    /\ UNCHANGED <<now, scrapers, nextJobId, registry, calls, executions, subscribers, progress, crawl, tracker>>

\* Lines 100-101
CJ_Return(r) ==
    /\ reqs[r].op = "create_job"
    /\ reqs[r].pc \in {"add_job_returned", "cj_return"}
    /\ reqs' = [reqs EXCEPT ![r] =
           Response(reqs[r], IF jobs[reqs[r].job_id].exists THEN 201 ELSE 500)]
    /\ UNCHANGED <<now, scrapers, jobs, nextJobId, registry, calls, executions, subscribers, progress, crawl, tracker>>

\* update_job, lines 130-145: the job lookup (404 when missing), then the
\* new values are set on the session's object
UJ_Select(r, j, upd) ==
    /\ reqs[r].pc = "idle"
    /\ LET q == [IdleReq EXCEPT !.op = "update_job", !.job_id = j]
       IN  IF jobs[j].exists
           THEN reqs' = [reqs EXCEPT ![r] =
                    [q EXCEPT !.pc = "uj_commit", !.upd = upd,
                              !.job = setattrs(jobs[j], upd),
                              !.before = overwritten(jobs[j], upd)]]
           ELSE reqs' = [reqs EXCEPT ![r] = Response(q, 404)]
    /\ UNCHANGED <<now, scrapers, jobs, nextJobId, registry, calls, executions, subscribers, progress, crawl, tracker>>

\* Line 147: the UPDATE writes the changed columns; it fails when the row is
\* gone
UJ_Commit(r) ==
    /\ reqs[r].pc = "uj_commit"
    /\ LET q == reqs[r]
       IN  IF jobs[q.job_id].exists
           THEN /\ jobs' = [jobs EXCEPT ![q.job_id] = setattrs(@, q.upd)]
                /\ reqs' = [reqs EXCEPT ![r].pc = "uj_refresh"]
           ELSE /\ reqs' = [reqs EXCEPT ![r] = Response(q, 500)]
                /\ UNCHANGED jobs
    /\ UNCHANGED <<now, scrapers, nextJobId, registry, calls, executions, subscribers, progress, crawl, tracker>>

\* Lines 148-169: the refresh, then the scheduler is brought up to date:
\* add_job up to its first await for an active job that has a scheduler id,
\* remove_job for an inactive one that has a scheduler id, nothing otherwise.
UJ_Refresh(r) ==
    /\ reqs[r].pc = "uj_refresh"
    /\ LET q == reqs[r]
           row == jobs[q.job_id]
       IN  IF ~row.exists
           THEN /\ reqs' = [reqs EXCEPT ![r] = Response(q, 500)]
                /\ UNCHANGED registry
           ELSE IF row.is_active /\ row.scheduler_job_id # NoId
           THEN AddJobEffect(r, [q EXCEPT !.job = row])
           ELSE IF ~row.is_active /\ row.scheduler_job_id # NoId
           THEN /\ registry' = remove_job(registry, row.scheduler_job_id)
                /\ reqs' = [reqs EXCEPT ![r] =
                       [q EXCEPT !.job = [row EXCEPT !.scheduler_job_id = NoId],
                                 !.pc = "uj_commit2"]]
           ELSE /\ reqs' = [reqs EXCEPT ![r] = [q EXCEPT !.job = row, !.pc = "uj_return"]]
                /\ UNCHANGED registry
    /\ UNCHANGED <<now, scrapers, jobs, nextJobId, calls, executions, subscribers, progress, crawl, tracker>>

\* Line 170
UJ_Commit2(r) ==
    /\ reqs[r].pc = "uj_commit2"
    /\ LET q == reqs[r]
       IN  IF jobs[q.job_id].exists
           THEN /\ jobs' = [jobs EXCEPT ![q.job_id].scheduler_job_id = NoId]
                /\ reqs' = [reqs EXCEPT ![r].pc = "uj_return"]
           ELSE /\ reqs' = [reqs EXCEPT ![r] = Response(q, 500)]
                /\ UNCHANGED jobs
    /\ UNCHANGED <<now, scrapers, nextJobId, registry, calls, executions, subscribers, progress, crawl, tracker>>

\* Lines 161-165 (400 after a ValueError of add_job) and 172-173
UJ_Return(r) ==
    /\ reqs[r].op = "update_job"
    /\ reqs[r].pc \in {"add_job_returned", "add_job_raised", "uj_return"}
    /\ reqs' = [reqs EXCEPT ![r] =
           Response(reqs[r],
               IF reqs[r].pc = "add_job_raised" THEN 400
               ELSE IF jobs[reqs[r].job_id].exists THEN 200 ELSE 500)]
    /\ UNCHANGED <<now, scrapers, jobs, nextJobId, registry, calls, executions, subscribers, progress, crawl, tracker>>

\* delete_job, lines 182-195: the job lookup (404 when missing), then
\* remove_job when the row has a scheduler id
DJ_Select(r, j) ==
    /\ reqs[r].pc = "idle"
    /\ LET q == [IdleReq EXCEPT !.op = "delete_job", !.job_id = j]
       IN  IF jobs[j].exists
           THEN /\ reqs' = [reqs EXCEPT ![r] = [q EXCEPT !.pc = "dj_commit", !.job = jobs[j]]]
                /\ registry' = IF jobs[j].scheduler_job_id # NoId
                               THEN remove_job(registry, jobs[j].scheduler_job_id)
                               ELSE registry
           ELSE /\ reqs' = [reqs EXCEPT ![r] = Response(q, 404)]
                /\ UNCHANGED registry
    /\ UNCHANGED <<now, scrapers, jobs, nextJobId, calls, executions, subscribers, progress, crawl, tracker>>

\* Lines 198-201
DJ_Commit(r) ==
    /\ reqs[r].pc = "dj_commit"
    /\ jobs' = [jobs EXCEPT ![reqs[r].job_id] = NoJob]
    /\ reqs' = [reqs EXCEPT ![r] = Response(reqs[r], 204)]
    /\ UNCHANGED <<now, scrapers, nextJobId, registry, calls, executions, subscribers, progress, crawl, tracker>>

\* delete_scraper (api/scrapers.py), lines 167-176: the task lookup, 404 when
\* it is missing
DS_Select(r, sid) ==
    /\ reqs[r].pc = "idle"
    /\ LET q == [IdleReq EXCEPT !.op = "delete_scraper", !.job_id = sid]
       IN  reqs' = [reqs EXCEPT ![r] =
               IF sid \in DOMAIN scrapers /\ scrapers[sid].exists
               THEN [q EXCEPT !.pc = "ds_commit"]
               ELSE Response(q, 404)]
    /\ UNCHANGED <<now, scrapers, jobs, nextJobId, registry, calls, executions, subscribers, progress, crawl, tracker>>

\* Lines 180-182: the task row is deleted, and with it (cascade) the job
\* rows and execution rows of the task
DS_Commit(r) ==
    /\ reqs[r].pc = "ds_commit"
    /\ LET sid == reqs[r].job_id
       IN  /\ scrapers' = [scrapers EXCEPT ![sid] = NoScraper]
           /\ jobs' = [j \in DOMAIN jobs |->
                          IF jobs[j].exists /\ jobs[j].scraper_id = sid
                          THEN NoJob ELSE jobs[j]]
           /\ executions' = SelectSeq(executions, LAMBDA x : x.scraper_id # sid)
    /\ reqs' = [reqs EXCEPT ![r].pc = "ds_drop"]
    /\ UNCHANGED <<now, nextJobId, registry, calls, subscribers, progress, crawl, tracker>>

\* Lines 184-192: the namespace is dropped (a failure is only printed), the
\* answer is 204
DS_Drop(r) ==
    /\ reqs[r].pc = "ds_drop"
    /\ reqs' = [reqs EXCEPT ![r] = Response(reqs[r], 204)]
    /\ UNCHANGED <<now, scrapers, jobs, nextJobId, registry, calls, executions, subscribers, progress, crawl, tracker>>

----------------------------------------------------------------------------
(* SpecSched: the job endpoints, concurrent, with the trigger engine *)

InitSched ==
    /\ now = 0
    /\ scrapers = [s \in ScraperIds |-> ScraperRow(TRUE, "scrapers.ok", "Good")]
    /\ jobs = [j \in JobIds |-> NoJob]
    /\ nextJobId = 1
    /\ registry = {}
    /\ reqs = [r \in ReqIds |-> IdleReq]
    /\ calls = <<>>
    /\ executions = <<>>
    /\ subscribers = EmptyDict
    /\ progress = {}
    /\ crawl = NoCrawl
    /\ tracker = IdleTracker

NextSched ==
    \/ \E r \in ReqIds, sid \in {1, 2}, i \in 1..Len(ApiSchedules), active \in BOOLEAN :
           CJ_Select(r, sid, i, active)
    \/ \E r \in ReqIds : CJ_Commit(r)
    \/ \E r \in ReqIds : CJ_Refresh(r)
    \/ \E r \in ReqIds : CJ_Rollback(r)
    \/ \E r \in ReqIds : CJ_Return(r)
    \/ \E r \in ReqIds, j \in JobIds, upd \in Updates : UJ_Select(r, j, upd)
    \/ \E r \in ReqIds : UJ_Commit(r)
    \/ \E r \in ReqIds : UJ_Refresh(r)
    \/ \E r \in ReqIds : UJ_Commit2(r)
    \/ \E r \in ReqIds : UJ_Return(r)
    \/ \E r \in ReqIds, j \in JobIds : DJ_Select(r, j)
    \/ \E r \in ReqIds : DJ_Commit(r)
    \/ \E r \in ReqIds : AddJobDb(r)
    \/ \E e \in registry : Fire(e)

SpecSched == InitSched /\ [][NextSched]_vars

----------------------------------------------------------------------------
(* The plugin contract (BaseScraper) *)

Messages == {"m1", "m2"}
ErrorTexts == {"", "boom"}

upper(level) ==
    CASE level = "info" -> "[INFO]"
      [] level = "warning" -> "[WARNING]"
      [] level = "error" -> "[ERROR]"

\* BaseScraper.log: append one formatted entry to self.logs
log(logs, message, level) == Append(logs, <<upper(level), message>>)

\* BaseScraper.get_logs: "\n".join(self.logs), as a sequence of tokens
RECURSIVE get_logs(_)
get_logs(logs) ==
    IF logs = <<>> THEN <<>>
    ELSE IF Len(logs) = 1 THEN logs[1]
    ELSE logs[1] \o <<"\n">> \o get_logs(Tail(logs))

\* BaseScraper.on_error, unless a plugin overrides it
on_error_default(logs, e) ==
    Append(logs, <<upper("error"), "Error during scraping: ", e.msg>>)

\* What "import module_path; getattr(module, class_name)" finds: the one
\* importable module holds a BaseScraper subclass and another class.
load_scraper_class(module_path, class_name) ==
    IF module_path # "scrapers.ok"
    THEN [ok |-> FALSE, e |-> [type |-> "ImportError", msg |-> "No module named"]]
    ELSE IF class_name \notin {"Good", "Helper"}
    THEN [ok |-> FALSE, e |-> [type |-> "AttributeError", msg |-> "no attribute"]]
    ELSE IF class_name # "Good"
    THEN [ok |-> FALSE, e |-> [type |-> "TypeError", msg |-> "must inherit from BaseScraper"]]
    ELSE [ok |-> TRUE, e |-> NoExc]

----------------------------------------------------------------------------
(* ScraperRunner.run_scraper and its two callers, one coroutine per call *)

CallIds == 1..Len(calls)
WsIds == {"w1"}
ExecIds == 1..MaxCalls

HookPcs == {"in_before", "in_scrape", "in_after"}

Results(n) == [i \in 1..n |-> i]

Finish_mut_uncaught(call, raising) ==
    [call EXCEPT !.pc = "done", !.raising = raising,
         !.outcome = IF raising = "" THEN "completed" ELSE "propagated"]

\* The end of the caller's coroutine once run_scraper has returned (raising =
\* "") or raised: _execute_scraper logs an Exception (scheduler.py 257-258),
\* run_job and the scraper run endpoint turn it into HTTP 500 (jobs.py
\* 236-240, scrapers.py 232-236) and answer 202 otherwise; none catches a
\* CancelledError, which is no Exception.
Finish(call, raising) ==
    [call EXCEPT !.pc = "done", !.raising = raising,
         !.outcome =
             IF raising = "CancelledError" THEN "propagated"
             ELSE IF call.origin = "scheduler"
                  THEN IF raising = "" THEN "completed" ELSE "logged"
                  ELSE IF raising = "" THEN "202" ELSE "500"]

Fail_mut_nologs(call, e, t) ==
    [call EXCEPT
         !.execution.status = "failed",
         !.execution.error_message = e.msg,
         !.execution.completed_at = t]

\* Lines 146-152: the except block after the on_error hook
Fail(call, e, t) ==
    [call EXCEPT
         !.execution.status = "failed",
         !.execution.error_message = e.msg,
         !.execution.completed_at = t,
         !.execution.logs = IF call.instance THEN get_logs(call.logs) ELSE @]

\* Lines 128-132
Succeed(call, t) ==
    [call EXCEPT
         !.execution.status = "success",
         !.execution.items_scraped = Len(call.results),
         !.execution.completed_at = t,
         !.execution.logs = get_logs(call.logs)]

EnterFinally_mut_skip(call) == [call EXCEPT !.pc = "final_commit"]

\* Lines 154-163: cleanup is called when the plugin was instantiated, then
\* the commit is awaited
EnterFinally(call) ==
    IF call.instance
    THEN [call EXCEPT !.pc = "in_cleanup", !.trace = Append(@, "cleanup")]
    ELSE [call EXCEPT !.pc = "final_commit"]

\* The trigger engine's call runs _execute_scraper: select the job row, set
\* last_run_at / next_run_at on it (lines 235-243)
W_LoadJob(c) ==
    /\ calls[c].pc = "start" /\ calls[c].origin = "scheduler"
    /\ LET call == calls[c]
           id == SchedulerJobId(call.job_id)
       IN  calls' = [calls EXCEPT ![c] =
               IF jobs[call.job_id].exists
               THEN [call EXCEPT !.pc = "w_commit", !.last_run_at = now,
                         !.next_run_at =
                             IF TriggersOf(registry, id) # {}
                             THEN get_next_run_time(registry, id)
                             ELSE jobs[call.job_id].next_run_at]
               ELSE [call EXCEPT !.pc = "fetch"]]
    /\ UNCHANGED <<now, scrapers, jobs, nextJobId, registry, reqs, executions, subscribers, progress, crawl, tracker>>

\* Line 245; the UPDATE of a row deleted in the meantime raises
W_Commit(c) ==
    /\ calls[c].pc = "w_commit"
    /\ LET call == calls[c]
       IN  IF jobs[call.job_id].exists
           THEN /\ jobs' = [jobs EXCEPT ![call.job_id].last_run_at = call.last_run_at,
                                        ![call.job_id].next_run_at = call.next_run_at]
                /\ calls' = [calls EXCEPT ![c].pc = "fetch"]
           ELSE /\ jobs' = jobs
                /\ calls' = [calls EXCEPT ![c] = Finish(call, "StaleDataError")]
    /\ UNCHANGED <<now, scrapers, nextJobId, registry, reqs, executions, subscribers, progress, crawl, tracker>>

\* Line 245 fails with a database error
W_CommitFails(c) ==
    /\ calls[c].pc = "w_commit"
    /\ calls' = [calls EXCEPT ![c] = Finish(calls[c], "DBAPIError")]
    /\ UNCHANGED <<now, scrapers, jobs, nextJobId, registry, reqs, executions, subscribers, progress, crawl, tracker>>

\* POST /jobs/{job_id}/run (jobs.py 204-229)
RunJob(j) ==
    /\ Len(calls) < MaxCalls
    /\ calls' = Append(calls, NewCall("run_job", j, 0, ""))
    /\ UNCHANGED <<now, scrapers, jobs, nextJobId, registry, reqs, executions, subscribers, progress, crawl, tracker>>

R_LoadJob(c) ==
    /\ calls[c].pc = "start" /\ calls[c].origin = "run_job"
    /\ LET call == calls[c]
           job == jobs[call.job_id]
       IN  calls' = [calls EXCEPT ![c] =
               IF job.exists
               THEN [call EXCEPT !.pc = "fetch", !.scraper_id = job.scraper_id,
                         !.params = job.params,
                         !.execution = NewExecution(job.scraper_id, call.job_id, job.params)]
               ELSE [call EXCEPT !.pc = "done", !.outcome = "404"]]
    /\ UNCHANGED <<now, scrapers, jobs, nextJobId, registry, reqs, executions, subscribers, progress, crawl, tracker>>

\* POST /scrapers/{scraper_id}/run (scrapers.py 196-225): 404 for a missing
\* task, 400 for an inactive one, before run_scraper is called
RunScraper(sid, params) ==
    /\ Len(calls) < MaxCalls
    /\ calls' = Append(calls, NewCall("run_scraper", 0, sid, params))
    /\ UNCHANGED <<now, scrapers, jobs, nextJobId, registry, reqs, executions, subscribers, progress, crawl, tracker>>

R_LoadScraper(c) ==
    /\ calls[c].pc = "start" /\ calls[c].origin = "run_scraper"
    /\ LET call == calls[c]
           scraper == scrapers[call.scraper_id]
       IN  calls' = [calls EXCEPT ![c] =
               IF ~scraper.exists THEN [call EXCEPT !.pc = "done", !.outcome = "404"]
               ELSE IF ~scraper.is_active
               THEN [call EXCEPT !.pc = "done", !.outcome = "400"]
               ELSE [call EXCEPT !.pc = "fetch"]]
    /\ UNCHANGED <<now, scrapers, jobs, nextJobId, registry, reqs, executions, subscribers, progress, crawl, tracker>>

RS_Fetch_mut_inactive(c) ==
    /\ calls[c].pc = "fetch"
    /\ LET call == calls[c]
           scraper_config == IF call.scraper_id \in ScraperIds
                             THEN scrapers[call.scraper_id] ELSE NoScraper
       IN  calls' = [calls EXCEPT ![c] =
               IF ~scraper_config.exists
               THEN Finish(call, "ValueError")
               ELSE [call EXCEPT !.pc = "insert",
                         !.module_path = scraper_config.module_path,
                         !.class_name = scraper_config.class_name]]
    /\ UNCHANGED <<now, scrapers, jobs, nextJobId, registry, reqs, executions, subscribers, progress, crawl, tracker>>

\* run_scraper lines 80-87
RS_Fetch(c) ==
    /\ calls[c].pc = "fetch"
    /\ LET call == calls[c]
           scraper_config == IF call.scraper_id \in ScraperIds
                             THEN scrapers[call.scraper_id] ELSE NoScraper
       IN  calls' = [calls EXCEPT ![c] =
               IF ~scraper_config.exists \/ ~scraper_config.is_active
               THEN Finish(call, "ValueError")
               ELSE [call EXCEPT !.pc = "insert",
                         !.module_path = scraper_config.module_path,
                         !.class_name = scraper_config.class_name]]
    /\ UNCHANGED <<now, scrapers, jobs, nextJobId, registry, reqs, executions, subscribers, progress, crawl, tracker>>

\* Lines 90-97: the row is inserted with status "running"
RS_Insert(c) ==
    /\ calls[c].pc = "insert"
    /\ executions' = Append(executions, calls[c].execution)
    /\ calls' = [calls EXCEPT ![c].pc = "created", ![c].exec_id = Len(executions) + 1]
    /\ UNCHANGED <<now, scrapers, jobs, nextJobId, registry, reqs, subscribers, progress, crawl, tracker>>

\* Lines 98-120: after the refresh, load the class, instantiate it and call
\* before_scrape; a load failure goes through the except and finally blocks
\* with no instance
RS_Begin(c) ==
    /\ calls[c].pc = "created"
    /\ LET call == calls[c]
           loaded == load_scraper_class(call.module_path, call.class_name)
       IN  calls' = [calls EXCEPT ![c] =
               IF loaded.ok
               THEN [call EXCEPT !.pc = "in_before", !.instance = TRUE,
                         !.self_execution_id = NoExecutionId,
                         !.trace = Append(@, "before_scrape")]
               ELSE EnterFinally(Fail([call EXCEPT !.e = loaded.e], loaded.e, now))]
    /\ UNCHANGED <<now, scrapers, jobs, nextJobId, registry, reqs, executions, subscribers, progress, crawl, tracker>>

\* Lines 112-117: the plugin's constructor raises
RS_BeginCtorRaises(c, msg) ==
    /\ calls[c].pc = "created"
    /\ load_scraper_class(calls[c].module_path, calls[c].class_name).ok
    /\ LET e == [type |-> "Exception", msg |-> msg]
       IN  calls' = [calls EXCEPT ![c] =
               EnterFinally(Fail([calls[c] EXCEPT !.e = e], e, now))]
    /\ UNCHANGED <<now, scrapers, jobs, nextJobId, registry, reqs, executions, subscribers, progress, crawl, tracker>>

\* The plugin calls self.log inside a hook
PluginLog(c, m, level) ==
    /\ calls[c].pc \in HookPcs
    /\ Len(calls[c].logs) < MaxLogs
    /\ calls' = [calls EXCEPT ![c].logs = log(@, m, level)]
    /\ UNCHANGED <<now, scrapers, jobs, nextJobId, registry, reqs, executions, subscribers, progress, crawl, tracker>>

\* The plugin calls self.report_progress inside a hook: nothing happens when
\* the instance has no execution id, otherwise the tracker gets the snapshot
report_progress(c) ==
    /\ calls[c].pc \in HookPcs
    /\ calls[c].reports < MaxReports
    /\ calls' = [calls EXCEPT ![c].reports = @ + 1]
    /\ progress' = IF calls[c].self_execution_id = NoExecutionId THEN progress
                   ELSE progress \cup {calls[c].self_execution_id}
    /\ UNCHANGED <<now, scrapers, jobs, nextJobId, registry, reqs, executions, subscribers, crawl, tracker>>

\* Lines 120-123
BeforeReturns(c) ==
    /\ calls[c].pc = "in_before"
    /\ calls' = [calls EXCEPT ![c].pc = "in_scrape",
                     ![c].trace = @ \o <<"ret", "scrape">>]
    /\ UNCHANGED <<now, scrapers, jobs, nextJobId, registry, reqs, executions, subscribers, progress, crawl, tracker>>

ScrapeReturns_mut_arg(c, n) ==
    /\ calls[c].pc = "in_scrape"
    /\ calls' = [calls EXCEPT ![c].pc = "in_after",
                     ![c].results = Results(n),
                     ![c].after_arg = <<>>,
                     ![c].trace = @ \o <<"ret", "after_scrape">>]
    /\ UNCHANGED <<now, scrapers, jobs, nextJobId, registry, reqs, executions, subscribers, progress, crawl, tracker>>

\* Lines 123-126
ScrapeReturns(c, n) ==
    /\ calls[c].pc = "in_scrape"
    /\ calls' = [calls EXCEPT ![c].pc = "in_after",
                     ![c].results = Results(n),
                     ![c].after_arg = Results(n),
                     ![c].trace = @ \o <<"ret", "after_scrape">>]
    /\ UNCHANGED <<now, scrapers, jobs, nextJobId, registry, reqs, executions, subscribers, progress, crawl, tracker>>

\* Lines 126-134, then the finally block
AfterReturns(c) ==
    /\ calls[c].pc = "in_after"
    /\ calls' = [calls EXCEPT ![c] =
           EnterFinally(Succeed([calls[c] EXCEPT !.trace = Append(@, "ret")], now))]
    /\ UNCHANGED <<now, scrapers, jobs, nextJobId, registry, reqs, executions, subscribers, progress, crawl, tracker>>

\* A hook raises an Exception: lines 136-142 call on_error
HookRaises(c, msg) ==
    /\ calls[c].pc \in HookPcs
    /\ calls' = [calls EXCEPT ![c].pc = "in_on_error",
                     ![c].e = [type |-> "Exception", msg |-> msg],
                     ![c].failed_in = calls[c].pc,
                     ![c].pre_logs = calls[c].logs,
                     ![c].trace = @ \o <<"raise", "on_error">>]
    /\ UNCHANGED <<now, scrapers, jobs, nextJobId, registry, reqs, executions, subscribers, progress, crawl, tracker>>

\* on_error returns (the default hook logs the error): lines 146-152, finally
OnErrorReturns(c) ==
    /\ calls[c].pc = "in_on_error"
    /\ LET call == [calls[c] EXCEPT !.logs = on_error_default(@, calls[c].e),
                                    !.trace = Append(@, "ret")]
       IN  calls' = [calls EXCEPT ![c] = EnterFinally(Fail(call, call.e, now))]
    /\ UNCHANGED <<now, scrapers, jobs, nextJobId, registry, reqs, executions, subscribers, progress, crawl, tracker>>

OnErrorRaises_mut_msg(c) ==
    /\ calls[c].pc = "in_on_error"
    /\ LET call == [calls[c] EXCEPT !.hook_error = TRUE, !.trace = Append(@, "raise")]
       IN  calls' = [calls EXCEPT ![c] =
               EnterFinally(Fail(call, [type |-> "Exception", msg |-> "hook_error"], now))]
    /\ UNCHANGED <<now, scrapers, jobs, nextJobId, registry, reqs, executions, subscribers, progress, crawl, tracker>>

\* An overriding on_error raises: lines 143-144 log it, then 146-152, finally
OnErrorRaises(c) ==
    /\ calls[c].pc = "in_on_error"
    /\ LET call == [calls[c] EXCEPT !.hook_error = TRUE, !.trace = Append(@, "raise")]
       IN  calls' = [calls EXCEPT ![c] = EnterFinally(Fail(call, call.e, now))]
    /\ UNCHANGED <<now, scrapers, jobs, nextJobId, registry, reqs, executions, subscribers, progress, crawl, tracker>>

\* Lines 158-163
CleanupReturns(c) ==
    /\ calls[c].pc = "in_cleanup"
    /\ calls' = [calls EXCEPT ![c].pc = "final_commit", ![c].trace = Append(@, "ret")]
    /\ UNCHANGED <<now, scrapers, jobs, nextJobId, registry, reqs, executions, subscribers, progress, crawl, tracker>>

\* Lines 159-160: an Exception of cleanup is logged
CleanupRaises(c) ==
    /\ calls[c].pc = "in_cleanup"
    /\ calls' = [calls EXCEPT ![c].pc = "final_commit", ![c].cleanup_error = TRUE,
                     ![c].trace = Append(@, "raise")]
    /\ UNCHANGED <<now, scrapers, jobs, nextJobId, registry, reqs, executions, subscribers, progress, crawl, tracker>>

\* Lines 163-166: the commit writes the Execution object; run_scraper returns
\* the id, or the exception that took it into the finally block goes on
RS_Commit(c) ==
    /\ calls[c].pc = "final_commit"
    /\ LET call == calls[c]
       IN  /\ executions' = [executions EXCEPT ![call.exec_id] = call.execution]
           /\ calls' = [calls EXCEPT ![c] =
                  Finish([call EXCEPT !.commits = @ + 1], call.raising)]
    /\ UNCHANGED <<now, scrapers, jobs, nextJobId, registry, reqs, subscribers, progress, crawl, tracker>>

\* The task running the call is cancelled: the pending await raises
\* CancelledError.  Inside the try block it passes `except Exception` and
\* enters the finally block; inside the finally block or outside the try it
\* leaves run_scraper at once.
Cancel(c) ==
    /\ calls[c].pc \in {"fetch", "insert", "created", "in_before", "in_scrape",
                        "in_after", "in_on_error", "in_cleanup", "final_commit"}
    /\ LET call == [calls[c] EXCEPT !.cancelled = TRUE]
       IN  calls' = [calls EXCEPT ![c] =
               IF call.pc \in HookPcs \cup {"in_on_error"}
               THEN EnterFinally([call EXCEPT !.raising = "CancelledError",
                                      !.trace = Append(@, "cancel")])
               ELSE Finish(call, "CancelledError")]
    /\ UNCHANGED <<now, scrapers, jobs, nextJobId, registry, reqs, executions, subscribers, progress, crawl, tracker>>

----------------------------------------------------------------------------
(* The Progress Broadcaster's maps, as the websocket endpoint drives them *)

\* ProgressTracker.subscribe, lines 41-44
Subscribe(ws, eid) ==
    /\ subscribers' =
          IF eid \in DOMAIN subscribers
          THEN [subscribers EXCEPT ![eid] = @ \cup {ws}]
          ELSE [k \in DOMAIN subscribers \cup {eid} |->
                   IF k = eid THEN {ws} ELSE subscribers[k]]
    /\ UNCHANGED <<now, scrapers, jobs, nextJobId, registry, reqs, calls, executions, progress, crawl, tracker>>

\* ProgressTracker.unsubscribe, lines 56-60
Unsubscribe(ws, eid) ==
    /\ eid \in DOMAIN subscribers
    /\ subscribers' =
          IF subscribers[eid] \ {ws} = {}
          THEN [k \in DOMAIN subscribers \ {eid} |-> subscribers[k]]
          ELSE [subscribers EXCEPT ![eid] = @ \ {ws}]
    /\ UNCHANGED <<now, scrapers, jobs, nextJobId, registry, reqs, calls, executions, progress, crawl, tracker>>

----------------------------------------------------------------------------
(* SpecRun: fired and requested executions over a fixed set of rows.  The  *)
(* initial rows are those the endpoints can leave behind: the task row may *)
(* be deleted (with its jobs), deactivated, or name code that no longer    *)
(* loads; the job row may be gone while its trigger is still registered.   *)

ScraperStates ==
    {NoScraper,
     ScraperRow(FALSE, "scrapers.ok", "Good"),
     ScraperRow(TRUE, "scrapers.ok", "Good"),
     ScraperRow(TRUE, "scrapers.gone", "Good"),
     ScraperRow(TRUE, "scrapers.ok", "Missing"),
     ScraperRow(TRUE, "scrapers.ok", "Helper")}

RunSchedules == {1, 7, 11}

InitRun ==
    /\ now = 0
    /\ scrapers \in [ScraperIds -> ScraperStates]
    /\ \E present \in BOOLEAN :
          /\ present => scrapers[1].exists
          /\ jobs = [j \in JobIds |->
                        IF j = 1 /\ present
                        THEN [JobRow(1, Schedules[1].schedule_type,
                                     Schedules[1].schedule_config, "p1", TRUE)
                                 EXCEPT !.scheduler_job_id = SchedulerJobId(1)]
                        ELSE NoJob]
    /\ nextJobId = 2
    /\ \E i \in RunSchedules :
          registry = add_job_registry({}, 1, 1, Schedules[i].schedule_type,
                                      Schedules[i].schedule_config, "p1", 0)
    /\ reqs = [r \in ReqIds |-> IdleReq]
    /\ calls = <<>>
    /\ executions = <<>>
    /\ subscribers = EmptyDict
    /\ progress = {}
    /\ crawl = NoCrawl
    /\ tracker = IdleTracker

NextRun ==
    \/ \E e \in registry : Fire(e)
    \/ \E j \in JobIds : RunJob(j)
    \/ \E sid \in ScraperIds : RunScraper(sid, "p2")
    \/ \E c \in CallIds : R_LoadScraper(c)
    \/ \E c \in CallIds : W_LoadJob(c)
    \/ \E c \in CallIds : W_Commit(c)
    \/ \E c \in CallIds : W_CommitFails(c)
    \/ \E c \in CallIds : R_LoadJob(c)
    \/ \E c \in CallIds : RS_Fetch(c)
    \/ \E c \in CallIds : RS_Insert(c)
    \/ \E c \in CallIds : RS_Begin(c)
    \/ \E c \in CallIds, msg \in ErrorTexts : RS_BeginCtorRaises(c, msg)
    \/ \E c \in CallIds, m \in Messages, level \in {"info", "warning"} : PluginLog(c, m, level)
    \/ \E c \in CallIds : report_progress(c)
    \/ \E c \in CallIds : BeforeReturns(c)
    \/ \E c \in CallIds, n \in 0..MaxItems : ScrapeReturns(c, n)
    \/ \E c \in CallIds : AfterReturns(c)
    \/ \E c \in CallIds, msg \in ErrorTexts : HookRaises(c, msg)
    \/ \E c \in CallIds : OnErrorReturns(c)
    \/ \E c \in CallIds : OnErrorRaises(c)
    \/ \E c \in CallIds : CleanupReturns(c)
    \/ \E c \in CallIds : CleanupRaises(c)
    \/ \E c \in CallIds : RS_Commit(c)
    \/ \E c \in CallIds : Cancel(c)
    \/ \E ws \in WsIds, eid \in ExecIds : Subscribe(ws, eid)
    \/ \E ws \in WsIds, eid \in ExecIds : Unsubscribe(ws, eid)

SpecRun == InitRun /\ [][NextRun]_vars

----------------------------------------------------------------------------
(* SpecFire: the firing wrapper _execute_scraper up to the call of the     *)
(* executor, concurrent with update_job and delete_job on the fired job    *)
(* and delete_scraper on its task.                                         *)
(* The job starts as create_job leaves an active job: registered, with its *)
(* scheduler id and next run time on the row.                              *)

InitFire ==
    /\ now = 0
    /\ scrapers = [s \in ScraperIds |-> ScraperRow(TRUE, "scrapers.ok", "Good")]
    /\ nextJobId = 2
    /\ \E i \in RunSchedules :
          /\ registry = add_job_registry({}, 1, 1, Schedules[i].schedule_type,
                                         Schedules[i].schedule_config, "p1", 0)
          /\ jobs = [j \in JobIds |->
                        IF j = 1
                        THEN [JobRow(1, Schedules[i].schedule_type,
                                     Schedules[i].schedule_config, "p1", TRUE)
                                 EXCEPT !.scheduler_job_id = SchedulerJobId(1),
                                        !.next_run_at =
                                            get_next_run_time(registry, SchedulerJobId(1))]
                        ELSE NoJob]
    /\ reqs = [r \in ReqIds |-> IdleReq]
    /\ calls = <<>>
    /\ executions = <<>>
    /\ subscribers = EmptyDict
    /\ progress = {}
    /\ crawl = NoCrawl
    /\ tracker = IdleTracker

\* One endpoint request at a time runs beside the firing
FireReqs == {1}

NextFire ==
    \/ \E e \in registry : Fire(e)
    \/ \E c \in CallIds : W_LoadJob(c)
    \/ \E c \in CallIds : W_Commit(c)
    \/ \E c \in CallIds : W_CommitFails(c)
    \/ \E r \in FireReqs, upd \in Updates \cup ParamUpdates : UJ_Select(r, 1, upd)
    \/ \E r \in FireReqs : UJ_Commit(r)
    \/ \E r \in FireReqs : UJ_Refresh(r)
    \/ \E r \in FireReqs : UJ_Commit2(r)
    \/ \E r \in FireReqs : UJ_Return(r)
    \/ \E r \in FireReqs : DJ_Select(r, 1)
    \/ \E r \in FireReqs : DJ_Commit(r)
    \/ \E r \in FireReqs, sid \in ScraperIds : DS_Select(r, sid)
    \/ \E r \in FireReqs : DS_Commit(r)
    \/ \E r \in FireReqs : DS_Drop(r)
    \/ \E r \in FireReqs : AddJobDb(r)

SpecFire == InitFire /\ [][NextFire]_vars

----------------------------------------------------------------------------
(* SpecReload: process startup (main.py lifespan).  The trigger engine is   *)
(* started with an empty store, then reload_jobs runs; no endpoint is       *)
(* served before it returns, but a trigger it has registered can fire      *)
(* while it awaits the database.  An active row carries the scheduler id   *)
(* the previous process stored on it.                                      *)

\* Schedules of the rows found at startup: a cron expression of four parts
\* (rejected by _create_trigger), an interval and a one-shot
ReloadSchedules == {3, 7, 12}

\* The orders in which select(Job) can answer with the rows of S
Orders(S) ==
    {s \in [1..Cardinality(S) -> S] :
        \A a, b \in 1..Cardinality(S) : a # b => s[a] # s[b]}

\* The coroutine of reload_jobs: todo is the rest of `jobs` to iterate over,
\* failed the jobs whose add_job raised into the except clause, raised
\* whether an exception has left reload_jobs.
NewReload ==
    [todo |-> <<>>, failed |-> {}, raised |-> FALSE] @@
    [IdleReq EXCEPT !.op = "reload_jobs", !.pc = "rl_select"]

reload_loop_mut_abort(reg, todo, failed, t) ==
    IF todo = <<>>
    THEN [registry |-> reg, todo |-> <<>>, failed |-> failed, current |-> 0,
          raised |-> FALSE]
    ELSE LET h == Head(todo)
             res == create_trigger(h.row.schedule_type, h.row.schedule_config, t)
             reg2 == add_job_registry(reg, h.id, h.row.scraper_id,
                         h.row.schedule_type, h.row.schedule_config, h.row.params, t)
         IN  IF res.ok
             THEN [registry |-> reg2, todo |-> Tail(todo), failed |-> failed,
                   current |-> h.id, raised |-> FALSE]
             ELSE [registry |-> reg2, todo |-> <<>>, failed |-> failed \cup {h.id},
                   current |-> 0, raised |-> TRUE]

\* The for loop from the head of todo up to its next await: a job whose
\* add_job raises is logged and the loop goes on; the loop stops inside the
\* add_job that reaches its select (current), or at the end of the list
\* (current = 0).
RECURSIVE reload_loop(_, _, _, _)
reload_loop(reg, todo, failed, t) ==
    IF todo = <<>>
    THEN [registry |-> reg, todo |-> <<>>, failed |-> failed, current |-> 0,
          raised |-> FALSE]
    ELSE LET h == Head(todo)
             res == create_trigger(h.row.schedule_type, h.row.schedule_config, t)
             reg2 == add_job_registry(reg, h.id, h.row.scraper_id,
                         h.row.schedule_type, h.row.schedule_config, h.row.params, t)
         IN  IF res.ok
             THEN [registry |-> reg2, todo |-> Tail(todo), failed |-> failed,
                   current |-> h.id, raised |-> FALSE]
             ELSE reload_loop(reg2, Tail(todo), failed \cup {h.id}, t)

\* The coroutine after running the loop from `todo` on
Reloading(q, todo) ==
    LET loop == reload_loop(registry, todo, q.failed, now)
    IN  /\ registry' = loop.registry
        /\ reqs' = [reqs EXCEPT ![1] =
              [q EXCEPT !.pc = IF loop.current = 0 THEN "rl_done" ELSE "rl_add_job_db",
                        !.todo = loop.todo,
                        !.failed = loop.failed,
                        !.raised = loop.raised,
                        !.job_id = loop.current,
                        !.next_run =
                            get_next_run_time(loop.registry, SchedulerJobId(loop.current))]]

\* select(Job).where(Job.is_active == True), then the loop
RL_Select(order) ==
    /\ reqs[1].pc = "rl_select"
    /\ order \in Orders({j \in JobIds : jobs[j].exists /\ jobs[j].is_active})
    /\ Reloading(reqs[1], [i \in DOMAIN order |-> [id |-> order[i], row |-> jobs[order[i]]]])
    /\ UNCHANGED <<now, scrapers, jobs, nextJobId, calls, executions, subscribers, progress, crawl, tracker>>

\* add_job's lines 105-110 for the current job, then the loop goes on
RL_AddJobDb ==
    /\ reqs[1].pc = "rl_add_job_db"
    /\ LET q == reqs[1]
       IN  /\ jobs' = IF jobs[q.job_id].exists
                      THEN [jobs EXCEPT ![q.job_id].next_run_at = q.next_run,
                                        ![q.job_id].scheduler_job_id =
                                            SchedulerJobId(q.job_id)]
                      ELSE jobs
           /\ Reloading(q, q.todo)
    /\ UNCHANGED <<now, scrapers, nextJobId, calls, executions, subscribers, progress, crawl, tracker>>

InitReload ==
    /\ now = 0
    /\ scrapers = [s \in ScraperIds |-> ScraperRow(TRUE, "scrapers.ok", "Good")]
    /\ \E pick \in [JobIds -> ReloadSchedules \X BOOLEAN] :
          jobs = [j \in JobIds |->
                     [JobRow(1, Schedules[pick[j][1]].schedule_type,
                             Schedules[pick[j][1]].schedule_config, "p1", pick[j][2])
                         EXCEPT !.scheduler_job_id =
                                    IF pick[j][2] THEN SchedulerJobId(j) ELSE NoId]]
    /\ nextJobId = MaxJobs + 1
    /\ registry = {}
    /\ reqs = [r \in ReqIds |-> IF r = 1 THEN NewReload ELSE IdleReq]
    /\ calls = <<>>
    /\ executions = <<>>
    /\ subscribers = EmptyDict
    /\ progress = {}
    /\ crawl = NoCrawl
    /\ tracker = IdleTracker

NextReload ==
    \/ \E order \in Orders({j \in JobIds : jobs[j].is_active}) : RL_Select(order)
    \/ RL_AddJobDb
    \/ \E e \in registry : Fire(e)

SpecReload == InitReload /\ [][NextReload]_vars

----------------------------------------------------------------------------
(* The grid crawlers (scrapers/campercontact_scraper.py and                *)
(* scrapers/park4night_scraper.py): scrape walks the partitions of a       *)
(* region, after_scrape stores what scrape returned.  crawl.kind names the *)
(* plugin: "cc" is CamperContactGridScraper, "p4n" Park4NightGridScraper.  *)

Partitions == 1..NParts

\* _generate_grid: the boxes of the region, in generation order
GridBoxes == [i \in 1..NParts |-> i]

\* The region of the runs, and another region with checkpoints of its own
Region == "r1"
OtherRegion == "r2"

\* marker.get("id") of a marker without an id
NoneId == "None"

\* What the external source answers for one partition: the ids, in order
IdSeqs == {<<>>, <<"b", "a">>, <<"a", "None", "a">>}

\* params.get("min_delay", 1.0), params.get("max_delay", 5.0)
MinDelay == 1
MaxDelay == 5

\* params.get("max_grid_boxes"): 0 stands for None
Limits == {0, 1}

\* The markers of partition p; data tells which answer a record came from
Markers(source, p) ==
    [i \in 1..Len(source[p]) |-> [id |-> source[p][i], data |-> p]]

Checkpoint(region, p) == [region |-> region, grid |-> p]

\* _get_processed_grid_points: the grid points checkpointed for the region
get_processed_grid_points(checkpoints, region) ==
    {checkpoints[i].grid : i \in {k \in 1..Len(checkpoints) : checkpoints[k].region = region}}

\* The resume filter: the boxes whose centre is not among the processed points
filter_processed(grid_boxes, checkpoints, region) ==
    LET processed_points == get_processed_grid_points(checkpoints, region)
        Todo(box) == box \notin processed_points
    IN  SelectSeq(grid_boxes, Todo)

\* grid_boxes[:max_grid_boxes] when max_grid_boxes is truthy
limit_boxes(grid_boxes, max_grid_boxes) ==
    IF max_grid_boxes = 0 THEN grid_boxes
    ELSE SubSeq(grid_boxes, 1, IF max_grid_boxes < Len(grid_boxes)
                               THEN max_grid_boxes ELSE Len(grid_boxes))

dedup_mut_noseen(markers, i, seen, new) ==
    [seen |-> seen \cup {markers[k].id : k \in 1..Len(markers)},
     new |-> SelectSeq(markers, LAMBDA m : m.id # NoneId)]

\* The deduplication loop: a marker is new when it has an id that was not
\* seen before in this run
RECURSIVE dedup(_, _, _, _)
dedup(markers, i, seen, new) ==
    IF i > Len(markers) THEN [seen |-> seen, new |-> new]
    ELSE LET poi_id == markers[i].id
         IN  IF poi_id # NoneId /\ poi_id \notin seen
             THEN dedup(markers, i + 1, seen \cup {poi_id}, Append(new, markers[i]))
             ELSE dedup(markers, i + 1, seen, new)

\* INSERT ... ON CONFLICT (id) DO UPDATE for each result, in order
RECURSIVE upsert(_, _, _)
upsert(places, results, i) ==
    IF i > Len(results) THEN places
    ELSE upsert({row \in places : row.id # results[i].id} \cup {results[i]},
                results, i + 1)

\* The crawler before its first run: empty tables but for the checkpoints
\* given, and the answers the external source will give
InitialCrawl(kind, source, checkpoints) ==
    [kind |-> kind, source |-> source, pc |-> "idle", runs |-> 0,
     resume |-> TRUE, limit |-> 0, work |-> <<>>, idx |-> 0,
     all_markers |-> <<>>, seen |-> {}, grid_progress |-> <<>>, results |-> <<>>,
     trace |-> <<>>, fetched |-> {}, save_failed |-> {},
     load_failed |-> FALSE, clean |-> TRUE, interrupted |-> FALSE,
     checkpoints |-> checkpoints, places |-> {},
     returned |-> FALSE, stored |-> FALSE, again |-> FALSE,
     first |-> [places |-> {}, checkpoints |-> <<>>]]

\* The events of a run, in order: a request for a partition, a rate-limit sleep
Request(p) == <<"request", p>>
Slept(delay) == <<"sleep", delay>>

\* scrape returns all_markers; run_scraper hands them to after_scrape, which
\* returns at once when there are none
CrawlReturn(c) ==
    [c EXCEPT !.returned = TRUE,
              !.results = c.all_markers,
              !.pc = IF c.all_markers = <<>> THEN "done" ELSE "store"]

\* The end of one iteration of the loop over grid_boxes
NextBox(c) ==
    IF c.idx + 1 > Len(c.work) THEN CrawlReturn(c)
    ELSE [c EXCEPT !.idx = c.idx + 1, !.pc = "fetch"]

\* if idx < total_boxes - 1: await asyncio.sleep(...)
RateLimit(c) ==
    IF c.idx < Len(c.work) THEN [c EXCEPT !.pc = "sleep"] ELSE NextBox(c)

\* The limit for testing, and the first iteration of the loop
EnterLoop(c, grid_boxes) ==
    LET work == limit_boxes(grid_boxes, c.limit)
        c1 == [c EXCEPT !.work = work, !.idx = 1]
    IN  IF work = <<>> THEN CrawlReturn(c1) ELSE [c1 EXCEPT !.pc = "fetch"]

\* run_scraper reaches scrape(params) of the crawler
StartRun(resume, limit) ==
    /\ crawl.pc \in {"idle", "done", "failed", "interrupted"}
    /\ crawl.runs < MaxRuns
    /\ LET c == [crawl EXCEPT !.runs = @ + 1, !.resume = resume, !.limit = limit,
                              !.work = <<>>, !.idx = 0, !.all_markers = <<>>,
                              !.seen = {}, !.grid_progress = <<>>, !.results = <<>>,
                              !.trace = <<>>, !.fetched = {}, !.save_failed = {},
                              !.load_failed = FALSE, !.returned = FALSE,
                              !.stored = FALSE, !.again = FALSE,
                              !.clean = @ /\ resume /\ limit = 0]
       IN  crawl' = IF resume THEN [c EXCEPT !.pc = "load"] ELSE EnterLoop(c, GridBoxes)
    /\ UNCHANGED <<now, scrapers, jobs, nextJobId, registry, reqs, calls, executions, subscribers, progress, tracker>>
\* define_tables(): the tables of the plugin, in the order returned
define_tables(kind) ==
    IF kind = "cc" THEN <<"places", "grid_progress", "detail_progress">>
    ELSE <<"places", "reviews", "place_descriptions", "grid_progress">>

\* The table _get_processed_grid_points selects from: tables[1] in
\* CamperContactGridScraper, tables[2] in Park4NightGridScraper (list
\* indexes count from 0)
progress_table(kind) ==
    define_tables(kind)[(IF kind = "cc" THEN 1 ELSE 2) + 1]

\* The tables that have the columns region, grid_lat and grid_lon; naming a
\* column a table does not have raises
HasGridColumns(table) == table = "grid_progress"

LoadProgressOk_mut_limitfirst ==
    /\ crawl.pc = "load"
    /\ HasGridColumns(progress_table(crawl.kind))
    /\ crawl' = EnterLoop(crawl, filter_processed(limit_boxes(GridBoxes, crawl.limit),
                                                  crawl.checkpoints, Region))
    /\ UNCHANGED <<now, scrapers, jobs, nextJobId, registry, reqs, calls, executions, subscribers, progress, tracker>>
\* The checkpoints of the region are read and the processed boxes filtered out
LoadProgressOk ==
    /\ crawl.pc = "load"
    /\ HasGridColumns(progress_table(crawl.kind))
    /\ crawl' = EnterLoop(crawl, filter_processed(GridBoxes, crawl.checkpoints, Region))
    /\ UNCHANGED <<now, scrapers, jobs, nextJobId, registry, reqs, calls, executions, subscribers, progress, tracker>>
\* Reading the checkpoints raises (the database fails, or the select names a
\* column the table does not have): a warning is logged, nothing is filtered
LoadProgressFails ==
    /\ crawl.pc = "load"
    /\ crawl' = EnterLoop([crawl EXCEPT !.load_failed = TRUE, !.clean = FALSE], GridBoxes)
    /\ UNCHANGED <<now, scrapers, jobs, nextJobId, registry, reqs, calls, executions, subscribers, progress, tracker>>
\* The request for the current box answers; its markers are deduplicated.
\* Park4Night notes the checkpoint in memory and goes on to the rate limit,
\* CamperContact goes on to write the checkpoint
FetchOk ==
    /\ crawl.pc = "fetch"
    /\ LET p == crawl.work[crawl.idx]
           d == dedup(Markers(crawl.source, p), 1, crawl.seen, <<>>)
           c == [crawl EXCEPT !.trace = Append(@, Request(p)),
                              !.fetched = @ \cup {p},
                              !.seen = d.seen,
                              !.all_markers = @ \o d.new]
       IN  crawl' = IF crawl.kind = "cc" THEN [c EXCEPT !.pc = "save"]
                    ELSE RateLimit([c EXCEPT !.grid_progress = Append(@, Checkpoint(Region, p))])
    /\ UNCHANGED <<now, scrapers, jobs, nextJobId, registry, reqs, calls, executions, subscribers, progress, tracker>>
FetchRaises_mut_checkpoint ==
    /\ crawl.pc = "fetch"
    /\ crawl' = NextBox([crawl EXCEPT !.trace = Append(@, Request(crawl.work[crawl.idx])),
                                      !.checkpoints =
                                          Append(@, Checkpoint(Region, crawl.work[crawl.idx])),
                                      !.clean = FALSE])
    /\ UNCHANGED <<now, scrapers, jobs, nextJobId, registry, reqs, calls, executions, subscribers, progress, tracker>>
\* The request for the current box raises: logged, continue
FetchRaises ==
    /\ crawl.pc = "fetch"
    /\ crawl' = NextBox([crawl EXCEPT !.trace = Append(@, Request(crawl.work[crawl.idx])),
                                      !.clean = FALSE])
    /\ UNCHANGED <<now, scrapers, jobs, nextJobId, registry, reqs, calls, executions, subscribers, progress, tracker>>
\* _save_grid_progress commits the checkpoint of the current box
SaveOk ==
    /\ crawl.pc = "save"
    /\ crawl' = RateLimit([crawl EXCEPT !.checkpoints =
                              Append(@, Checkpoint(Region, crawl.work[crawl.idx]))])
    /\ UNCHANGED <<now, scrapers, jobs, nextJobId, registry, reqs, calls, executions, subscribers, progress, tracker>>
SaveFails_mut_abort ==
    /\ crawl.pc = "save"
    /\ crawl' = [crawl EXCEPT !.save_failed = @ \cup {crawl.work[crawl.idx]},
                              !.clean = FALSE, !.pc = "failed"]
    /\ UNCHANGED <<now, scrapers, jobs, nextJobId, registry, reqs, calls, executions, subscribers, progress, tracker>>
\* Writing the checkpoint raises: a warning is logged
SaveFails ==
    /\ crawl.pc = "save"
    /\ crawl' = RateLimit([crawl EXCEPT !.save_failed = @ \cup {crawl.work[crawl.idx]},
                                        !.clean = FALSE])
    /\ UNCHANGED <<now, scrapers, jobs, nextJobId, registry, reqs, calls, executions, subscribers, progress, tracker>>
\* asyncio.sleep(random.uniform(min_delay, max_delay)) returns
Sleep(delay) ==
    /\ crawl.pc = "sleep"
    /\ crawl' = NextBox([crawl EXCEPT !.trace = Append(@, Slept(delay))])
    /\ UNCHANGED <<now, scrapers, jobs, nextJobId, registry, reqs, calls, executions, subscribers, progress, tracker>>
\* The rows of the checkpoint table after after_scrape(results): Park4Night
\* inserts the checkpoints carried by the results, CamperContact writes none
store_progress(c) ==
    IF c.kind = "p4n" THEN c.checkpoints \o c.grid_progress ELSE c.checkpoints

\* after_scrape(results): one transaction that upserts every result
StoreOk ==
    /\ crawl.pc = "store"
    /\ LET places == upsert(crawl.places, crawl.results, 1)
           checkpoints == store_progress(crawl)
       IN  crawl' = [crawl EXCEPT !.places = places, !.checkpoints = checkpoints,
                                  !.stored = TRUE, !.pc = "done",
                                  !.first = [places |-> places, checkpoints |-> checkpoints]]
    /\ UNCHANGED <<now, scrapers, jobs, nextJobId, registry, reqs, calls, executions, subscribers, progress, tracker>>
\* The transaction of after_scrape fails and is rolled back: CamperContact
\* raises again (the execution fails), Park4Night logs and returns
StoreFails ==
    /\ crawl.pc = "store"
    /\ crawl' = [crawl EXCEPT !.clean = FALSE,
                              !.pc = IF crawl.kind = "cc" THEN "failed" ELSE "done"]
    /\ UNCHANGED <<now, scrapers, jobs, nextJobId, registry, reqs, calls, executions, subscribers, progress, tracker>>
\* after_scrape is run once more with the results of the run
StoreAgain ==
    /\ crawl.pc = "done" /\ crawl.stored /\ ~crawl.again
    /\ crawl' = [crawl EXCEPT !.places = upsert(crawl.places, crawl.results, 1),
                              !.checkpoints = store_progress(crawl),
                              !.again = TRUE]
    /\ UNCHANGED <<now, scrapers, jobs, nextJobId, registry, reqs, calls, executions, subscribers, progress, tracker>>
\* The process running the execution stops at an await of the crawl
Interrupt ==
    /\ crawl.pc \in {"load", "fetch", "save", "sleep", "store"}
    /\ crawl' = [crawl EXCEPT !.pc = "interrupted", !.interrupted = TRUE]
    /\ UNCHANGED <<now, scrapers, jobs, nextJobId, registry, reqs, calls, executions, subscribers, progress, tracker>>
InitCrawl ==
    /\ now = 0 /\ scrapers = [s \in ScraperIds |-> NoScraper] /\ jobs = [j \in JobIds |-> NoJob]
    /\ nextJobId = 1 /\ registry = {} /\ reqs = [r \in ReqIds |-> IdleReq]
    /\ calls = <<>> /\ executions = <<>>
    /\ subscribers = EmptyDict /\ progress = {}
    /\ tracker = IdleTracker
    /\ \E kind \in {"cc", "p4n"}, source \in [Partitions -> IdSeqs],
          checkpoints \in {<<>>, <<Checkpoint(OtherRegion, 1)>>} :
          crawl = InitialCrawl(kind, source, checkpoints)

NextCrawl ==
    \/ \E resume \in BOOLEAN, limit \in Limits : StartRun(resume, limit)
    \/ LoadProgressOk
    \/ LoadProgressFails
    \/ FetchOk
    \/ FetchRaises
    \/ SaveOk
    \/ SaveFails
    \/ \E delay \in {MinDelay, MaxDelay} : Sleep(delay)
    \/ StoreOk
    \/ StoreFails
    \/ StoreAgain
    \/ Interrupt

SpecCrawl == InitCrawl /\ [][NextCrawl]_vars

----------------------------------------------------------------------------
(* The progress tracker (services/progress_tracker.py) with its lock, for  *)
(* one execution id: tasks that call update_progress and websocket tasks   *)
(* that subscribe and unsubscribe.  Every await is a step; a snapshot is   *)
(* named by the number of the update_progress call that built it.          *)

Updaters == {"u1", "u2"}
Sockets == {"w1", "w2"}
Tasks == Updaters \cup Sockets

NoTask == "none"
NoProgress == 0

IdleTask == [pc |-> "idle", op |-> "", n |-> 0, todo |-> {}, dead |-> {}]

\* ProgressTracker.__init__
NewTracker ==
    [locked_by |-> NoTask, waiters |-> <<>>, has_key |-> FALSE, subscribers |-> {},
     progress |-> NoProgress,
     made |-> 0, inbox |-> [w \in Sockets |-> <<>>], task |-> [t \in Tasks |-> IdleTask]]

\* asyncio.Lock.acquire: taken at once when the lock is free and nobody waits,
\* otherwise the task joins the queue of waiters
acquire(tr, t) ==
    IF tr.locked_by = NoTask /\ tr.waiters = <<>>
    THEN [tr EXCEPT !.locked_by = t]
    ELSE [tr EXCEPT !.waiters = Append(@, t), !.task[t].pc = "wait"]

release_mut_lifo(tr) ==
    IF tr.waiters = <<>> THEN [tr EXCEPT !.locked_by = NoTask]
    ELSE [tr EXCEPT !.locked_by = tr.waiters[Len(tr.waiters)],
                    !.waiters = SubSeq(tr.waiters, 1, Len(tr.waiters) - 1)]

\* asyncio.Lock.release: the first waiter is woken and nobody else can take
\* the lock before it runs
release(tr) ==
    IF tr.waiters = <<>> THEN [tr EXCEPT !.locked_by = NoTask]
    ELSE [tr EXCEPT !.locked_by = Head(tr.waiters), !.waiters = Tail(tr.waiters)]

\* The end of the broadcast: dead connections are removed, the lock released
EndBroadcast(tr, t) ==
    release([tr EXCEPT !.subscribers = @ \ tr.task[t].dead, !.task[t] = IdleTask])

\* update_progress inside the lock, up to its first await; without an entry
\* for the id, or with an empty set, there is nothing to send
UpdateBody(tr, t) ==
    LET tr1 == [tr EXCEPT !.progress = tr.task[t].n,
                          !.task[t].todo = tr.subscribers, !.task[t].pc = "send"]
    IN  IF tr.subscribers = {} THEN EndBroadcast(tr1, t) ELSE tr1

\* subscribe inside the lock, up to its first await
SubscribeBody_mut_unlocked(tr, w) ==
    LET tr1 == [tr EXCEPT !.has_key = TRUE, !.subscribers = @ \cup {w}]
    IN  IF tr.progress # NoProgress
        THEN release([tr1 EXCEPT !.task[w].pc = "initial", !.task[w].n = tr.progress])
        ELSE release([tr1 EXCEPT !.task[w].pc = "subscribed"])

SubscribeBody(tr, w) ==
    LET tr1 == [tr EXCEPT !.has_key = TRUE, !.subscribers = @ \cup {w}]
    IN  IF tr.progress # NoProgress
        THEN [tr1 EXCEPT !.task[w].pc = "initial", !.task[w].n = tr.progress]
        ELSE release([tr1 EXCEPT !.task[w].pc = "subscribed"])

UnsubscribeBody_mut_keep(tr, w) ==
    release([tr EXCEPT !.task[w].pc = "closed"])

\* unsubscribe inside the lock: the entry is deleted with its last observer
UnsubscribeBody(tr, w) ==
    release([tr EXCEPT !.subscribers = @ \ {w},
                       !.has_key = tr.has_key /\ tr.subscribers \ {w} # {},
                       !.task[w].pc = "closed"])

\* complete_execution inside the lock
CompleteBody(tr, t) ==
    release([tr EXCEPT !.progress = NoProgress, !.has_key = FALSE, !.subscribers = {},
                       !.task[t] = IdleTask])

\* The body of the async with block of the task's call
Enter(tr, t) ==
    CASE tr.task[t].op = "update" -> UpdateBody(tr, t)
      [] tr.task[t].op = "subscribe" -> SubscribeBody(tr, t)
      [] tr.task[t].op = "unsubscribe" -> UnsubscribeBody(tr, t)
      [] tr.task[t].op = "complete" -> CompleteBody(tr, t)

\* A call reaches async with self._lock
Locking(tr, t) ==
    LET tr1 == acquire(tr, t)
    IN  IF tr1.locked_by = t THEN Enter(tr1, t) ELSE tr1

\* A task calls update_progress: the snapshot is built, then the lock asked for
update_progress(t) ==
    /\ tracker.task[t].pc = "idle"
    /\ tracker.made < MaxUpdates
    /\ tracker' = Locking([tracker EXCEPT !.made = @ + 1,
                                          !.task[t].op = "update",
                                          !.task[t].n = tracker.made + 1], t)
    /\ UNCHANGED <<now, scrapers, jobs, nextJobId, registry, reqs, calls, executions, subscribers, progress, crawl>>
\* A task calls complete_execution
complete_execution(t) ==
    /\ tracker.task[t].pc = "idle"
    /\ tracker' = Locking([tracker EXCEPT !.task[t].op = "complete"], t)
    /\ UNCHANGED <<now, scrapers, jobs, nextJobId, registry, reqs, calls, executions, subscribers, progress, crawl>>

\* The websocket endpoint calls subscribe
subscribe(w) ==
    /\ tracker.task[w].pc = "idle"
    /\ tracker' = Locking([tracker EXCEPT !.task[w].op = "subscribe"], w)
    /\ UNCHANGED <<now, scrapers, jobs, nextJobId, registry, reqs, calls, executions, subscribers, progress, crawl>>
unsubscribe_mut_nolock(w) ==
    /\ tracker.task[w].pc = "subscribed"
    /\ tracker' = [tracker EXCEPT !.subscribers = @ \ {w},
                                  !.has_key = tracker.has_key /\ tracker.subscribers \ {w} # {},
                                  !.task[w].pc = "closed"]
    /\ UNCHANGED <<now, scrapers, jobs, nextJobId, registry, reqs, calls, executions, subscribers, progress, crawl>>
\* The websocket endpoint calls unsubscribe when the client has gone
unsubscribe(w) ==
    /\ tracker.task[w].pc = "subscribed"
    /\ tracker' = Locking([tracker EXCEPT !.task[w].op = "unsubscribe"], w)
    /\ UNCHANGED <<now, scrapers, jobs, nextJobId, registry, reqs, calls, executions, subscribers, progress, crawl>>
\* A waiter that was given the lock runs
Resume(t) ==
    /\ tracker.task[t].pc = "wait"
    /\ tracker.locked_by = t
    /\ tracker' = Enter(tracker, t)
    /\ UNCHANGED <<now, scrapers, jobs, nextJobId, registry, reqs, calls, executions, subscribers, progress, crawl>>
\* The broadcast loop after one more send
Broadcast(tr, t) ==
    IF tr.task[t].todo = {} THEN EndBroadcast(tr, t) ELSE tr

\* websocket.send_json(progress.to_dict()) returns
SendOk(t, w) ==
    /\ tracker.task[t].pc = "send"
    /\ w \in tracker.task[t].todo
    /\ tracker' = Broadcast([tracker EXCEPT !.inbox[w] = Append(@, tracker.task[t].n),
                                            !.task[t].todo = @ \ {w}], t)
    /\ UNCHANGED <<now, scrapers, jobs, nextJobId, registry, reqs, calls, executions, subscribers, progress, crawl>>
SendFails_mut_raise(t, w) ==
    /\ tracker.task[t].pc = "send"
    /\ w \in tracker.task[t].todo
    /\ tracker' = release([tracker EXCEPT !.task[t].pc = "raised"])
    /\ UNCHANGED <<now, scrapers, jobs, nextJobId, registry, reqs, calls, executions, subscribers, progress, crawl>>

\* websocket.send_json raises: the connection is noted as dead
SendFails(t, w) ==
    /\ tracker.task[t].pc = "send"
    /\ w \in tracker.task[t].todo
    /\ tracker' = Broadcast([tracker EXCEPT !.task[t].dead = @ \cup {w},
                                            !.task[t].todo = @ \ {w}], t)
    /\ UNCHANGED <<now, scrapers, jobs, nextJobId, registry, reqs, calls, executions, subscribers, progress, crawl>>
\* subscribe sends the latest snapshot to the new subscriber
InitialOk(w) ==
    /\ tracker.task[w].pc = "initial"
    /\ tracker' = release([tracker EXCEPT !.inbox[w] = Append(@, tracker.task[w].n),
                                          !.task[w].pc = "subscribed"])
    /\ UNCHANGED <<now, scrapers, jobs, nextJobId, registry, reqs, calls, executions, subscribers, progress, crawl>>
\* Sending the latest snapshot raises: logged, the subscription stays
InitialFails(w) ==
    /\ tracker.task[w].pc = "initial"
    /\ tracker' = release([tracker EXCEPT !.task[w].pc = "subscribed"])
    /\ UNCHANGED <<now, scrapers, jobs, nextJobId, registry, reqs, calls, executions, subscribers, progress, crawl>>
InitTracker ==
    /\ now = 0 /\ scrapers = [s \in ScraperIds |-> NoScraper] /\ jobs = [j \in JobIds |-> NoJob]
    /\ nextJobId = 1 /\ registry = {} /\ reqs = [r \in ReqIds |-> IdleReq]
    /\ calls = <<>> /\ executions = <<>>
    /\ subscribers = EmptyDict /\ progress = {}
    /\ crawl = NoCrawl
    /\ tracker = NewTracker

NextTracker ==
    \/ \E t \in Updaters : update_progress(t)
    \/ \E t \in Updaters : complete_execution(t)
    \/ \E w \in Sockets : subscribe(w)
    \/ \E w \in Sockets : unsubscribe(w)
    \/ \E t \in Tasks : Resume(t)
    \/ \E t \in Updaters, w \in Sockets : SendOk(t, w)
    \/ \E t \in Updaters, w \in Sockets : SendFails(t, w)
    \/ \E w \in Sockets : InitialOk(w)
    \/ \E w \in Sockets : InitialFails(w)

SpecTracker == InitTracker /\ [][NextTracker]_vars

----------------------------------------------------------------------------
(* Properties of the Task Executor (checked under SpecRun) *)

Done(c) == calls[c].pc = "done"

\* The call ran to its own end: nobody cancelled the task running it
Uncancelled(c) == ~calls[c].cancelled

Record(c) == executions[calls[c].exec_id]

HookNames == {"before_scrape", "scrape", "after_scrape"}
CallEvents == HookNames \cup {"on_error", "cleanup"}
EndEvents == {"ret", "raise", "cancel"}

IsHookName(x) == x \in HookNames
IsOnError(x) == x = "on_error"
IsCleanup(x) == x = "cleanup"

HookCalls(c) == SelectSeq(calls[c].trace, IsHookName)
OnErrorCalls(c) == Len(SelectSeq(calls[c].trace, IsOnError))
CleanupCalls(c) == Len(SelectSeq(calls[c].trace, IsCleanup))

\* The lines of a text: the token runs between "\n" tokens
RECURSIVE LinesFrom(_, _, _)
LinesFrom(text, i, cur) ==
    IF i > Len(text) THEN IF cur = <<>> THEN <<>> ELSE <<cur>>
    ELSE IF text[i] = "\n" THEN <<cur>> \o LinesFrom(text, i + 1, <<>>)
    ELSE LinesFrom(text, i + 1, Append(cur, text[i]))

Lines(text) == LinesFrom(text, 1, <<>>)

\* C1: every ExecutionRecord created by run_scraper is 'running' at creation
\* and, once the run_scraper call that created it has returned or raised, is
\* in a terminal status written by exactly one final commit.
C1_RecordFinalized ==
    \A c \in CallIds :
        /\ calls[c].exec_id > 0 /\ ~Done(c) /\ calls[c].commits = 0
               => Record(c).status = "running"
        /\ calls[c].exec_id > 0 /\ Done(c)
               => Record(c).status \in {"success", "failed"} /\ calls[c].commits = 1

\* C6: before_scrape, scrape and after_scrape are called in that order, each
\* at most once, a hook only after the previous call has ended; a successful
\* execution called each exactly once; after_scrape receives what scrape
\* returned.
C6_HookOrder ==
    \A c \in CallIds :
        LET trace == calls[c].trace
        IN  /\ IsPrefix(HookCalls(c), <<"before_scrape", "scrape", "after_scrape">>)
            /\ \A i \in 1..Len(trace) :
                   trace[i] \in CallEvents =>
                       IF i = 1 THEN trace[i] = "before_scrape"
                       ELSE trace[i - 1] \in EndEvents
            /\ \A i \in 1..Len(trace) :
                   trace[i] \in EndEvents => i > 1 /\ trace[i - 1] \in CallEvents
            /\ calls[c].execution.status = "success"
                   => HookCalls(c) = <<"before_scrape", "scrape", "after_scrape">>
            /\ Len(HookCalls(c)) = 3 => calls[c].after_arg = calls[c].results

C6_Witness ==
    \E c \in CallIds :
        /\ Done(c) /\ calls[c].exec_id > 0
        /\ Record(c).status = "success"
        /\ calls[c].after_arg # <<>>

\* C7: when scrape raised after the plugin logged entries, the finalized
\* record is 'failed', has an error message and a completion time, and its
\* logs start with the entries written before the failure, in order.
C7_FailedRunKeepsLogs ==
    \A c \in CallIds :
        Done(c) /\ Uncancelled(c) /\ calls[c].failed_in = "in_scrape"
            => /\ Record(c).status = "failed"
               /\ Record(c).error_message # "None"
               /\ Record(c).error_message = calls[c].e.msg
               /\ Record(c).completed_at # NoTime
               /\ Record(c).logs # <<"None">>
               /\ IsPrefix(calls[c].pre_logs, Lines(Record(c).logs))

C7_Witness ==
    \E c \in CallIds :
        /\ Done(c) /\ Uncancelled(c) /\ calls[c].failed_in = "in_scrape"
        /\ Len(calls[c].pre_logs) = 2
        /\ calls[c].pre_logs[1] # calls[c].pre_logs[2]
        /\ Record(c).status = "failed"

\* C8: on_error is called exactly once when a hook of the instantiated
\* plugin failed and never otherwise; when on_error itself raises, the
\* record is still finalized as 'failed' with the message of the first
\* failure.
C8_OnErrorOnce ==
    \A c \in CallIds :
        /\ calls[c].failed_in # "" => OnErrorCalls(c) = 1
        /\ calls[c].failed_in = "" => OnErrorCalls(c) = 0
        /\ calls[c].execution.status = "success" => OnErrorCalls(c) = 0
        /\ ~calls[c].instance => OnErrorCalls(c) = 0
        /\ Done(c) /\ Uncancelled(c) /\ calls[c].hook_error
               => /\ Record(c).status = "failed"
                  /\ Record(c).error_message = calls[c].e.msg
                  /\ calls[c].outcome \in {"completed", "202"}

C8_Witness ==
    \E c \in CallIds :
        /\ Done(c) /\ Uncancelled(c) /\ calls[c].hook_error
        /\ OnErrorCalls(c) = 1
        /\ Record(c).status = "failed"

\* C9: when the plugin was instantiated, cleanup is called exactly once,
\* after every hook has ended and before run_scraper ends, on every path;
\* a failing cleanup changes neither the status nor the final commit.
C9_CleanupOnce ==
    \A c \in CallIds :
        LET trace == calls[c].trace
        IN  /\ CleanupCalls(c) <= 1
            /\ ~calls[c].instance => CleanupCalls(c) = 0
            /\ Done(c) /\ calls[c].instance => CleanupCalls(c) = 1
            /\ \A i \in 1..Len(trace) :
                   trace[i] = "cleanup" =>
                       /\ i > 1 /\ trace[i - 1] \in EndEvents
                       /\ \A k \in (i + 1)..Len(trace) : trace[k] \notin CallEvents
            /\ Done(c) /\ Uncancelled(c) /\ calls[c].cleanup_error
                   => /\ calls[c].commits = 1
                      /\ Record(c) = calls[c].execution
                      /\ Record(c).status =
                             IF calls[c].failed_in = "" THEN "success" ELSE "failed"

C9_Witness ==
    \E c \in CallIds :
        /\ Done(c) /\ Uncancelled(c) /\ calls[c].cleanup_error
        /\ calls[c].failed_in = "in_after"
        /\ Record(c).status = "failed"

\* C10: at the step that persists the final ExecutionRecord of an execution,
\* on success and on failure alike, the Progress Broadcaster is left with no
\* snapshot and no observer set for that execution id.
C10_BroadcasterCleared ==
    [][\A c \in CallIds :
          calls[c].commits = 0 /\ calls'[c].commits = 1
              => /\ calls[c].exec_id \notin DOMAIN subscribers'
                 /\ calls[c].exec_id \notin progress']_vars

\* C5 as stated: no failure of a fired execution leaves _execute_scraper, and
\* after a failing fire the job's trigger is still registered.
FailedFire(c) ==
    /\ calls[c].origin = "scheduler" /\ Done(c) /\ Uncancelled(c)
    /\ \/ calls[c].outcome = "logged"
       \/ calls[c].exec_id > 0 /\ Record(c).status = "failed"

C5_Original ==
    \A c \in CallIds :
        FailedFire(c)
            => /\ calls[c].outcome # "propagated"
               /\ TriggersOf(registry, SchedulerJobId(calls[c].job_id)) # {}

\* C5, amended: no failure of a fired execution leaves _execute_scraper;
\* after a failing fire of a cron or interval job the trigger is still
\* registered, with a later fire time; a 'once' trigger left the registry
\* when it fired.
C5_FailureContained ==
    \A c \in CallIds :
        calls[c].origin = "scheduler" /\ Done(c) /\ Uncancelled(c)
            => LET live == TriggersOf(registry, SchedulerJobId(calls[c].job_id))
               IN  /\ calls[c].outcome \in {"completed", "logged"}
                   /\ FailedFire(c) /\ calls[c].fired_kind # "date"
                          => \E e \in live :
                                 /\ e.trigger.kind = calls[c].fired_kind
                                 /\ e.next_run_time > calls[c].fired_at
                   /\ calls[c].fired_kind = "date" => live = {}

C5_Witness ==
    \E c \in CallIds :
        /\ FailedFire(c)
        /\ calls[c].raising = "ValueError"
        /\ calls[c].fired_kind = "interval"
        /\ TriggersOf(registry, SchedulerJobId(calls[c].job_id)) # {}

\* C2: the registry never holds more than one trigger under job_<id>, and
\* when add_job succeeds the registry holds exactly one trigger for the id,
\* the one built from that call's configuration, whatever was registered
\* before.
C2_OneTriggerPerJob ==
    [][/\ \A j \in JobIds :
              Cardinality(TriggersOf(registry', SchedulerJobId(j))) <= 1
       /\ \A r \in ReqIds :
              reqs[r].pc = "add_job" /\ reqs'[r].pc = "add_job_db"
                  => LET q == reqs[r]
                         built == create_trigger(q.job.schedule_type,
                                      q.job.schedule_config, now)
                     IN  /\ built.ok
                         /\ TriggersOf(registry', SchedulerJobId(q.job_id)) =
                                {Entry(q.job_id, q.job.scraper_id, q.job.params,
                                       built.trigger, now)}]_vars

\* A second successful add_job for a job whose first call registered a cron
\* trigger (the row carries that call's next run time): the interval trigger
\* of the second call is the only one.
C2_Witness ==
    \E r \in ReqIds :
        LET q == reqs[r]
            live == TriggersOf(registry, SchedulerJobId(q.job_id))
        IN  /\ q.pc = "add_job_db"
            /\ q.had_trigger
            /\ q.job.schedule_type = "interval"
            /\ jobs[q.job_id].scheduler_job_id = SchedulerJobId(q.job_id)
            /\ jobs[q.job_id].next_run_at = 3600
            /\ Cardinality(live) = 1
            /\ \A e \in live : e.trigger.kind = "interval"

\* The number of fields of a cron expression: the positions where a run of
\* non-blank characters starts
FieldCount(expression) ==
    Cardinality({i \in 1..Len(expression) :
        /\ expression[i] # " "
        /\ (i = 1 \/ expression[i - 1] = " ")})

InvalidSchedule(schedule_type, schedule_config) ==
    LET keys == DOMAIN schedule_config
    IN  CASE schedule_type = "cron" ->
                 \/ "expression" \notin keys
                 \/ FieldCount(schedule_config.expression) # 5
          [] schedule_type = "interval" ->
                 keys \cap {"seconds", "minutes", "hours", "days"} = {}
          [] schedule_type = "once" ->
                 keys \cap {"run_at", "delay_seconds"} = {}
          [] OTHER -> TRUE

\* C4: add_job with an invalid schedule raises ValueError and leaves no
\* trigger under job_<id>, whether or not one was registered before.
C4_InvalidScheduleRejected ==
    [][\A r \in ReqIds :
          /\ reqs[r].pc = "add_job"
          /\ reqs'[r].pc # "add_job"
          /\ InvalidSchedule(reqs[r].job.schedule_type, reqs[r].job.schedule_config)
          => /\ reqs'[r].pc = "add_job_raised"
             /\ reqs'[r].error = "ValueError"
             /\ TriggersOf(registry', SchedulerJobId(reqs[r].job_id)) = {}]_vars

\* add_job has failed on a six-field cron expression for a job that had a
\* trigger before the call
C4_Witness ==
    \E r \in ReqIds :
        /\ reqs[r].pc = "add_job_raised"
        /\ reqs[r].error = "ValueError"
        /\ reqs[r].had_trigger
        /\ reqs[r].job.schedule_type = "cron"
        /\ reqs[r].job.schedule_config = [expression |-> Expr6]
        /\ TriggersOf(registry, SchedulerJobId(reqs[r].job_id)) = {}

\* C3: a job row whose is_active is false has no trigger registered under
\* job_<id>, in every state of the interleaved job endpoints.
C3_InactiveHasNoTrigger ==
    \A j \in JobIds :
        jobs[j].exists /\ ~jobs[j].is_active
            => TriggersOf(registry, SchedulerJobId(j)) = {}

\* C11: the caller of run_scraper (the firing wrapper or a run endpoint)
\* obtains the execution id while the record is still 'running', before any
\* hook of the plugin has been called.
C11_IdReturnedAtInsert ==
    [][\A c \in CallIds :
          /\ calls[c].outcome = ""
          /\ calls'[c].outcome \in {"completed", "202"}
          => /\ executions'[calls'[c].exec_id].status = "running"
             /\ calls'[c].trace = <<>>]_vars

\* C12: when the plugin reference of an active task does not resolve,
\* run_scraper raises to its caller and no ExecutionRecord exists for the
\* request.
Unresolved(c) ==
    /\ calls[c].module_path # ""
    /\ ~load_scraper_class(calls[c].module_path, calls[c].class_name).ok

C12_UnresolvedPluginSurfaced ==
    \A c \in CallIds :
        Done(c) /\ Uncancelled(c) /\ Unresolved(c)
            => /\ calls[c].raising # ""
               /\ calls[c].exec_id = 0

\* C13: run_scraper for a task that is missing or inactive raises ValueError
\* to its caller; no record is created and no plugin code is loaded or run.
BadTask(sid) ==
    \/ sid \notin ScraperIds
    \/ ~scrapers[sid].exists
    \/ ~scrapers[sid].is_active

C13_BadTaskRejected ==
    [][\A c \in CallIds :
          /\ calls[c].pc = "fetch"
          /\ calls'[c].pc # "fetch"
          /\ ~calls'[c].cancelled
          /\ BadTask(calls[c].scraper_id)
          => /\ calls'[c].pc = "done"
             /\ calls'[c].raising = "ValueError"
             /\ calls'[c].outcome \in {"logged", "500"}
             /\ executions' = executions
             /\ calls'[c].exec_id = 0
             /\ calls'[c].module_path = ""
             /\ ~calls'[c].instance
             /\ calls'[c].trace = <<>>]_vars

C13_Witness ==
    \E c \in CallIds :
        /\ Done(c)
        /\ calls[c].raising = "ValueError"
        /\ calls[c].origin = "run_job"
        /\ scrapers[calls[c].scraper_id].exists
        /\ ~scrapers[calls[c].scraper_id].is_active
        /\ executions = <<>>

----------------------------------------------------------------------------
(* Claims about the grid crawlers, checked under SpecCrawl.                *)

\* The partitions of the region that have a checkpoint
Checkpointed(checkpoints) ==
    {q \in Partitions : \E k \in 1..Len(checkpoints) : checkpoints[k] = Checkpoint(Region, q)}

Elements(seq) == {seq[i] : i \in 1..Len(seq)}

\* C14: for CamperContactGridScraper without a max_grid_boxes limit, when a
\* run with resume enabled fixes its work list, the list holds exactly the
\* generated partitions that have no checkpoint for the region (none fetched
\* again, none skipped); with resume disabled it holds every generated partition.
C14_WorkListIsUnprocessed ==
    [][crawl.kind = "cc" /\ crawl'.limit = 0 =>
          /\ crawl.pc = "load" /\ crawl'.pc \notin {"load", "interrupted"}
             => Elements(crawl'.work) = Partitions \ Checkpointed(crawl.checkpoints)
          /\ crawl'.runs # crawl.runs /\ ~crawl'.resume
             => crawl'.work = GridBoxes]_vars


\* The ids an uninterrupted run over the whole region returns and stores
RegionIds(source) ==
    UNION {{source[q][i] : i \in 1..Len(source[q])} : q \in Partitions} \ {NoneId}

StoredIds == {row.id : row \in crawl.places}

\* C15: when a CamperContact crawl is interrupted after some partitions were
\* checkpointed and is then resumed to completion (resume enabled, no limit,
\* no failing request or write), the stored records are those an uninterrupted
\* run over the region stores: one row for every id of the region, none missing.
C15_ResumedRunStoresAll ==
    crawl.kind = "cc" /\ crawl.pc = "done" /\ crawl.interrupted /\ crawl.clean
        => /\ StoredIds = RegionIds(crawl.source)
           /\ Cardinality(crawl.places) = Cardinality(StoredIds)

\* The number of records of a sequence that carry the id
Occurrences(results, id) == Cardinality({i \in 1..Len(results) : results[i].id = id})

\* The ids the source returned for partition q
IdsOf(source, q) == {source[q][i] : i \in 1..Len(source[q])} \ {NoneId}

\* C16: in the sequence a grid-crawl run returns no two records have the same
\* external id, and every id returned by a successfully fetched partition is in
\* it exactly once, also when several partitions return the same id.
C16_OutputIdsUnique ==
    crawl.returned =>
        /\ \A i, j \in 1..Len(crawl.results) :
              crawl.results[i].id = crawl.results[j].id => i = j
        /\ \A q \in crawl.fetched : \A id \in IdsOf(crawl.source, q) :
              Occurrences(crawl.results, id) = 1

\* A run returned after it fetched two partitions that both hold record a
C16_Witness ==
    /\ crawl.returned
    /\ \E q1, q2 \in crawl.fetched :
          q1 # q2 /\ "a" \in IdsOf(crawl.source, q1) /\ "a" \in IdsOf(crawl.source, q2)
    /\ Occurrences(crawl.results, "a") = 1

\* C17: running a crawler's after_scrape a second time with the same results
\* leaves in every table it writes the rows the first run left: one row per
\* external id, and no further row.
C17_StoreTwiceSameRows ==
    crawl.again =>
        /\ crawl.places = crawl.first.places
        /\ Cardinality(crawl.places) = Cardinality(StoredIds)
        /\ crawl.checkpoints = crawl.first.checkpoints

\* The partitions requested by a run, in the order of the requests
Requested(trace) ==
    LET requests == SelectSeq(trace, LAMBDA event : event[1] = "request")
    IN  [i \in 1..Len(requests) |-> requests[i][2]]

\* C18: in CamperContactGridScraper.scrape a failing checkpoint write does not
\* stop the run: the step that fails leaves the collected records as they are
\* and goes on to the rate limit or the end of the loop, and when scrape returns
\* it has requested every partition of the work list in order and the records
\* of the partitions whose checkpoint write failed are in the output.
C18_SaveFailureContained ==
    [][crawl.kind = "cc" =>
          /\ crawl.pc = "save" /\ crawl'.save_failed # crawl.save_failed
             => /\ crawl'.all_markers = crawl.all_markers
                /\ crawl'.pc = IF crawl.idx < Len(crawl.work) THEN "sleep"
                               ELSE IF crawl.all_markers = <<>> THEN "done" ELSE "store"
                /\ crawl'.idx = crawl.idx
          /\ crawl'.returned /\ crawl'.save_failed # {}
             => /\ Requested(crawl'.trace) = crawl'.work
                /\ \A q \in crawl'.save_failed : \A id \in IdsOf(crawl'.source, q) :
                      Occurrences(crawl'.results, id) = 1]_vars

\* A run returned after the checkpoint write failed for a partition that had
\* records and was not the last of the work list
C18_Witness ==
    /\ crawl.kind = "cc" /\ crawl.returned
    /\ \E k \in 1..(Len(crawl.work) - 1) :
          /\ crawl.work[k] \in crawl.save_failed
          /\ \E i \in 1..Len(crawl.results) : crawl.results[i].data = crawl.work[k]
    /\ Requested(crawl.trace) = crawl.work

\* C19: within one grid-crawl run a rate-limit sleep of a duration within
\* [min_delay, max_delay] lies between the request for a partition and the
\* request for the next one, whatever the outcome of the first request.
C19_SleepBetweenRequests ==
    \A i \in 1..Len(crawl.trace) :
        /\ crawl.trace[i][1] = "sleep"
           => crawl.trace[i][2] >= MinDelay /\ crawl.trace[i][2] <= MaxDelay
        /\ i < Len(crawl.trace) /\ crawl.trace[i][1] = "request"
           => crawl.trace[i + 1][1] = "sleep"

----------------------------------------------------------------------------
(* Claim about the progress tracker, checked under SpecTracker.            *)

\* C20: for one execution id the snapshots reach every observer in the order
\* of the update_progress calls, also when concurrent tasks make the calls,
\* and none is skipped: what an observer has received are the snapshots of
\* consecutive calls, and whenever no call holds the lock a subscribed
\* observer that has received anything has the snapshot of the latest call.
C20_DeliveredInCallOrder ==
    \A w \in Sockets :
        /\ \A i \in 1..(Len(tracker.inbox[w]) - 1) :
              tracker.inbox[w][i + 1] = tracker.inbox[w][i] + 1
        /\ /\ tracker.locked_by = NoTask
           /\ w \in tracker.subscribers
           /\ tracker.inbox[w] # <<>>
           => tracker.inbox[w][Len(tracker.inbox[w])] = tracker.progress

\* Both observers have received two snapshots in the same order while one
\* task broadcasts and another, which called later, waits for the lock
C20_Witness ==
    /\ \A w \in Sockets : Len(tracker.inbox[w]) >= 2
    /\ tracker.inbox["w1"] = tracker.inbox["w2"]
    /\ \E t1, t2 \in Updaters :
          /\ tracker.task[t1].pc = "send"
          /\ tracker.task[t2].pc = "wait"
          /\ tracker.task[t2].n > tracker.task[t1].n

\* C21: when a send fails during update_progress, the observer is removed from
\* the set at the end of the broadcast, every other observer of the set is
\* still sent the snapshot, the snapshot is the latest one stored, and the call
\* ends normally.
C21_DeadObserverEvicted ==
    [][\A t \in Updaters : tracker.task[t].pc = "send" =>
          LET n == tracker.task[t].n
              ended == tracker'.task[t].pc = "idle"
          IN  /\ tracker'.task[t].pc \in {"send", "idle"}
              /\ tracker'.progress = n
              /\ \A w \in tracker.task[t].todo :
                    \/ /\ ~ended
                       /\ w \in tracker'.task[t].todo
                       /\ tracker'.inbox[w] = tracker.inbox[w]
                    \/ /\ tracker'.inbox[w] = Append(tracker.inbox[w], n)
                       /\ ended => w \in tracker'.subscribers
                    \/ /\ tracker'.inbox[w] = tracker.inbox[w]
                       /\ IF ended THEN w \notin tracker'.subscribers
                          ELSE w \in tracker'.task[t].dead
              /\ ended =>
                    /\ Cardinality(tracker.task[t].todo) = 1
                    /\ tracker'.subscribers \subseteq tracker.subscribers
                    /\ tracker.task[t].dead \cap tracker'.subscribers = {}
                    /\ \A w \in tracker'.subscribers : n \in Elements(tracker'.inbox[w])]_vars

\* Both observers received snapshot 1; in the broadcast of snapshot 2 the send
\* to w1 failed and w2 received it: w1, which never unsubscribed, is out of
\* the set, w2 is in it, and snapshot 2 is the latest
C21_Witness ==
    /\ tracker.locked_by = NoTask
    /\ tracker.progress = 2
    /\ tracker.task["w1"].pc = "subscribed" /\ tracker.task["w2"].pc = "subscribed"
    /\ tracker.subscribers = {"w2"}
    /\ tracker.inbox["w1"] = <<1>>
    /\ tracker.inbox["w2"] = <<1, 2>>

\* C22: subscribe for an id that has a latest snapshot sends it inside the
\* critical section that adds the observer: while the send is pending the
\* subscriber holds the lock, is in the set, has received nothing and the
\* latest snapshot is still the one it registered with; the send then delivers
\* that snapshot to it and nothing to anybody else.  Without a snapshot,
\* subscribe returns with nothing sent.
C22_InitialSnapshotInLock ==
    [][\A w \in Sockets :
          LET n == tracker'.task[w].n
          IN  /\ tracker'.task[w].pc = "initial"
                 => /\ tracker'.locked_by = w
                    /\ w \in tracker'.subscribers
                    /\ tracker'.inbox[w] = <<>>
                    /\ n # NoProgress /\ tracker'.progress = n
              /\ tracker.task[w].pc = "initial" /\ tracker'.task[w].pc # "initial"
                 => /\ tracker'.task[w].pc = "subscribed"
                    /\ tracker'.inbox[w] \in {<<tracker.task[w].n>>, <<>>}
                    /\ \A v \in Sockets \ {w} : tracker'.inbox[v] = tracker.inbox[v]
              /\ tracker.task[w].pc \in {"idle", "wait"} /\ tracker'.task[w].pc = "subscribed"
                 => /\ tracker.progress = NoProgress
                    /\ tracker'.inbox[w] = <<>>
                    /\ w \in tracker'.subscribers]_vars

\* An observer has been sent the snapshot it registered with while a later
\* update_progress call was waiting for the lock
C22_Witness ==
    \E w \in Sockets, t \in Updaters :
        /\ tracker.task[w].pc = "subscribed"
        /\ tracker.task[w].n # NoProgress
        /\ tracker.inbox[w] = <<tracker.task[w].n>>
        /\ tracker.task[t].op = "update" /\ tracker.task[t].pc \in {"wait", "send"}
        /\ tracker.task[t].n = tracker.task[w].n + 1
        /\ w \in tracker.task[t].todo \/ tracker.task[t].pc = "wait"

\* C23: once unsubscribe has completed for an observer, the observer is not in
\* the set and receives no snapshot from any later update_progress, also when
\* the unsubscribe had to wait for a broadcast that was under way.
C23_NothingAfterUnsubscribe ==
    [][\A w \in Sockets :
          /\ tracker'.task[w].pc = "closed" => w \notin tracker'.subscribers
          /\ tracker.task[w].pc = "closed"
             => /\ tracker'.inbox[w] = tracker.inbox[w]
                /\ \A t \in Updaters : w \notin tracker'.task[t].todo]_vars

\* w1 has unsubscribed after snapshot 1; the broadcast of snapshot 2 is under
\* way with w2 as its only addressee and no failed send
C23_Witness ==
    /\ tracker.task["w1"].pc = "closed"
    /\ tracker.inbox["w1"] = <<1>>
    /\ tracker.inbox["w2"] = <<1>>
    /\ \E t \in Updaters :
          /\ tracker.task[t].pc = "send" /\ tracker.task[t].n = 2
          /\ tracker.task[t].todo = {"w2"} /\ tracker.task[t].dead = {}

\* C24: the tracker never keeps an empty observer set: whenever the observer
\* map has an entry for the execution id, the entry has at least one observer.
C24_NoEmptyObserverSet ==
    tracker.has_key => tracker.subscribers # {}

\* C25: when a plugin that the executor runs for execution e calls
\* report_progress, the progress tracker has a snapshot for execution id e
\* when the call returns.
C25_ReportReachesTracker ==
    [][\A c \in CallIds :
          c \in DOMAIN calls' /\ calls'[c].reports > calls[c].reports
              => calls[c].exec_id \in progress']_vars

----------------------------------------------------------------------------
(* Claims about the firing wrapper and the job endpoints.                  *)

\* C26: a trigger that fires hands the wrapper the id of its job, the job's
\* task id and the params the job row holds at that moment; and when the
\* wrapper then invokes the executor with them, the job row already carries
\* the last_run_at and next_run_at the wrapper set for this firing.
C26_FiredWithStoredParams ==
    [][/\ Len(calls') > Len(calls) /\ calls'[Len(calls')].origin = "scheduler"
          => LET call == calls'[Len(calls')]
                 job == jobs[call.job_id]
             IN  job.exists => /\ call.scraper_id = job.scraper_id
                               /\ call.params = job.params
       /\ \A c \in DOMAIN calls :
             /\ calls[c].origin = "scheduler"
             /\ calls[c].pc # "fetch" /\ calls'[c].pc = "fetch"
             /\ jobs'[calls[c].job_id].exists
             => LET job == jobs'[calls[c].job_id]
                IN  /\ calls[c].last_run_at >= calls[c].fired_at
                    /\ job.last_run_at = calls[c].last_run_at
                    /\ job.next_run_at = calls[c].next_run_at
                    /\ calls'[c].params = calls[c].params
                    /\ calls'[c].scraper_id = calls[c].scraper_id]_vars
----------------------------------------------------------------------------
(* Claims about reload_jobs *)

ValidSchedule(job) == create_trigger(job.schedule_type, job.schedule_config, 0).ok

LiveTriggers(j) == Cardinality(TriggersOf(registry', SchedulerJobId(j)))

FiredOnce(j) ==
    \E c \in DOMAIN calls' : calls'[c].job_id = j /\ calls'[c].fired_kind = "date"

ReloadCompletes == reqs[1].pc # "rl_done" /\ reqs'[1].pc = "rl_done"

----------------------------------------------------------------------------
(* Claims about update_job and create_job *)

\* Request r answers its update_job call with status 200 in this step
UpdateReturns(r) ==
    /\ reqs[r].op = "update_job" /\ reqs[r].pc # "idle"
    /\ reqs'[r].pc = "idle" /\ reqs'[r].status = 200

\* C28: when update_job has changed is_active from false to true and answers
\* successfully, the registry holds a trigger job_<id> and the row's
\* scheduler_job_id is job_<id>; when it has changed is_active from true to
\* false, the trigger is absent and scheduler_job_id is null.
C28_ActivationFollowsFlag ==
    [][\A r \in ReqIds :
          UpdateReturns(r) =>
             LET q == reqs[r]
                 id == SchedulerJobId(q.job_id)
             IN  /\ q.before.is_active = "false" /\ q.upd.is_active = "true"
                    => /\ TriggersOf(registry', id) # {}
                       /\ jobs'[q.job_id].scheduler_job_id = id
                 /\ q.before.is_active = "true" /\ q.upd.is_active = "false"
                    => /\ TriggersOf(registry', id) = {}
                       /\ jobs'[q.job_id].scheduler_job_id = NoId]_vars

\* C29: when create_job is called for an active job whose schedule add_job
\* rejects, the request is answered with an error and afterwards there is no
\* job row for the request and no trigger registered under its id.
C29_RejectedCreateLeavesNothing ==
    [][\A r \in ReqIds :
          /\ reqs[r].op = "create_job" /\ reqs[r].pc = "add_job_raised"
          /\ reqs'[r].pc = "idle"
          => /\ reqs'[r].status >= 400
             /\ ~jobs'[reqs[r].job_id].exists
             /\ TriggersOf(registry', SchedulerJobId(reqs[r].job_id)) = {}]_vars

\* The only request so far was a create_job that has been answered 400
C29_Witness ==
    /\ reqs[1].status = 400 /\ reqs[1].pc = "idle"
    /\ reqs[2] = IdleReq
    /\ nextJobId = 2
    /\ ~jobs[1].exists
    /\ registry = {}

\* Request r answers its update_job call with status 400 in this step, after
\* add_job has rejected the schedule
UpdateRejected(r) ==
    /\ reqs[r].op = "update_job" /\ reqs[r].pc = "add_job_raised"
    /\ reqs'[r].pc = "idle"

\* C30: when add_job rejects the change update_job was given, the job row
\* has again the schedule kind, schedule configuration, params and active
\* flag the request overwrote, and a trigger that was live when the request
\* reached add_job is still live.
C30_RejectedUpdateRolledBack ==
    [][\A r \in ReqIds :
          UpdateRejected(r) =>
             LET q == reqs[r]
                 row == jobs'[q.job_id]
             IN  /\ q.before.schedule # <<>>
                    => <<row.schedule_type, row.schedule_config>> = q.before.schedule
                 /\ q.before.params # "unset" => row.params = q.before.params
                 /\ q.before.is_active # "unset"
                    => row.is_active = (q.before.is_active = "true")
                 /\ q.had_trigger
                    => TriggersOf(registry', SchedulerJobId(q.job_id)) # {}]_vars
----------------------------------------------------------------------------
(* SpecStore: tasks and their storage namespaces.  create_scraper gives a  *)
(* task the namespace scraper_<id>; run_scraper hands that name to the      *)
(* plugin's constructor; the CamperContact plugins write into the          *)
(* namespace their schema_name attribute names.  In this specification     *)
(* scrapers is the list of task rows in id order and crawl the storage:    *)
(* the namespaces, the one place row a namespace can hold, and a record of *)
(* every row written (who wrote into which namespace).                     *)

PluginClasses == {"CamperContactGridScraper", "CamperContactDetailScraper"}

\* f"scraper_{scraper.id}"
SchemaNameOf(id) == <<"scraper_", id>>

\* CamperContactDetailScraper.SHARED_SCHEMA
SHARED_SCHEMA == <<"scraper_", 5>>

NoInstance == [scraper_id |-> 0, class_name |-> "", schema_name |-> <<>>]

TaskRow(class_name, schema_name) ==
    [class_name |-> class_name, schema_name |-> schema_name]

EmptyStorage ==
    [pc |-> "idle", instance |-> NoInstance, results |-> <<>>,
     schemas |-> {}, places |-> {}, detailed |-> {}, processed |-> {},
     writes |-> {}]

Sitecode == "s1"

\* scraper_class(scraper_id=..., schema_name=...): BaseScraper.__init__
\* assigns self.schema_name; the detail plugin's property setter stores
\* SHARED_SCHEMA whatever it is given.
instantiate(scraper_id, class_name, schema_name) ==
    [scraper_id |-> scraper_id, class_name |-> class_name,
     schema_name |-> IF class_name = "CamperContactDetailScraper"
                     THEN SHARED_SCHEMA ELSE schema_name]

Written(inst, table) ==
    [writer |-> inst.scraper_id, schema |-> inst.schema_name, table |-> table]

create_scraper(class_name) ==
    /\ crawl.pc = "idle"
    /\ Len(scrapers) < MaxTasks
    /\ LET id == Len(scrapers) + 1
       IN  /\ scrapers' = Append(scrapers, TaskRow(class_name, SchemaNameOf(id)))
           /\ crawl' = [crawl EXCEPT !.schemas = @ \cup {SchemaNameOf(id)}]
    /\ UNCHANGED <<now, jobs, nextJobId, registry, reqs, calls, executions, subscribers, progress, tracker>>

\* run_scraper up to the plugin's construction
Instantiate(T) ==
    /\ crawl.pc = "idle"
    /\ T \in DOMAIN scrapers
    /\ crawl' = [crawl EXCEPT
           !.pc = "scrape",
           !.instance = instantiate(T, scrapers[T].class_name, scrapers[T].schema_name)]
    /\ UNCHANGED <<now, scrapers, jobs, nextJobId, registry, reqs, calls, executions, subscribers, progress, tracker>>

\* CamperContactGridScraper.scrape: the checkpoints go to grid_progress of
\* the plugin's namespace, the markers found (none, or the one place) are
\* returned
GridScrape(found) ==
    /\ crawl.pc = "scrape"
    /\ crawl.instance.class_name = "CamperContactGridScraper"
    /\ crawl' = [crawl EXCEPT
           !.pc = "after_scrape",
           !.results = IF found THEN <<Sitecode>> ELSE <<>>,
           !.schemas = @ \cup {crawl.instance.schema_name},
           !.writes = @ \cup {Written(crawl.instance, "grid_progress")}]
    /\ UNCHANGED <<now, scrapers, jobs, nextJobId, registry, reqs, calls, executions, subscribers, progress, tracker>>

\* CamperContactDetailScraper.scrape: the places of the plugin's namespace
\* without detail data and without a detail_progress row are fetched; each
\* fetch leaves a detail_progress row; the details found are returned
DetailScrape(found) ==
    /\ crawl.pc = "scrape"
    /\ crawl.instance.class_name = "CamperContactDetailScraper"
    /\ LET s == crawl.instance.schema_name
           todo == s \in crawl.places /\ s \notin crawl.detailed
                   /\ s \notin crawl.processed
       IN  crawl' = [crawl EXCEPT
               !.pc = "after_scrape",
               !.results = IF todo /\ found THEN <<Sitecode>> ELSE <<>>,
               !.schemas = @ \cup {s},
               !.processed = IF todo THEN @ \cup {s} ELSE @,
               !.writes = IF todo THEN @ \cup {Written(crawl.instance, "detail_progress")}
                          ELSE @]
    /\ UNCHANGED <<now, scrapers, jobs, nextJobId, registry, reqs, calls, executions, subscribers, progress, tracker>>

\* after_scrape of either plugin: nothing without results; the grid plugin
\* upserts the place, the detail plugin updates the place row when there is
\* one
AfterScrape ==
    /\ crawl.pc = "after_scrape"
    /\ LET inst == crawl.instance
           s == inst.schema_name
           grid == inst.class_name = "CamperContactGridScraper"
           wrote == crawl.results # <<>> /\ (grid \/ s \in crawl.places)
       IN  crawl' = [crawl EXCEPT
               !.pc = "idle",
               !.instance = NoInstance,
               !.results = <<>>,
               !.places = IF crawl.results # <<>> /\ grid THEN @ \cup {s} ELSE @,
               !.detailed = IF crawl.results # <<>> /\ ~grid /\ s \in crawl.places
                            THEN @ \cup {s} ELSE @,
               !.writes = IF wrote THEN @ \cup {Written(inst, "places")} ELSE @]
    /\ UNCHANGED <<now, scrapers, jobs, nextJobId, registry, reqs, calls, executions, subscribers, progress, tracker>>

InitStore ==
    /\ now = 0
    /\ scrapers = <<>>
    /\ jobs = [j \in JobIds |-> NoJob]
    /\ nextJobId = 1
    /\ registry = {}
    /\ reqs = [r \in ReqIds |-> IdleReq]
    /\ calls = <<>>
    /\ executions = <<>>
    /\ subscribers = EmptyDict
    /\ progress = {}
    /\ crawl = EmptyStorage
    /\ tracker = IdleTracker

NextStore ==
    \/ \E class_name \in PluginClasses : create_scraper(class_name)
    \/ \E T \in DOMAIN scrapers : Instantiate(T)
    \/ \E found \in BOOLEAN : GridScrape(found)
    \/ \E found \in BOOLEAN : DetailScrape(found)
    \/ AfterScrape

SpecStore == InitStore /\ [][NextStore]_vars

\* C31: every row written by an execution of task T is written into T's own
\* namespace scraper_<T>, so no execution writes rows into the namespace of
\* another task.
C31_WritesStayInOwnNamespace ==
    \A w \in crawl.writes : w.schema = SchemaNameOf(w.writer)
----------------------------------------------------------------------------
(* Claims about interval schedules, checked under SpecTrig *)

IntervalKeys(schedule_config) ==
    DOMAIN schedule_config \cap {"seconds", "minutes", "hours", "days"}

\* C32: add_job accepts an 'interval' configuration only when it supplies
\* exactly one of seconds, minutes, hours, days, and the trigger it installs
\* has that key's value in that unit as its period; a configuration with
\* none of the four keys is rejected with ValueError.
C32_IntervalExactlyOneKey ==
    [][\A r \in ReqIds :
          /\ reqs[r].pc = "add_job" /\ reqs'[r].pc # "add_job"
          /\ reqs[r].job.schedule_type = "interval"
          => LET config == reqs[r].job.schedule_config
                 keys == IntervalKeys(config)
             IN  /\ reqs'[r].pc = "add_job_db"
                    => /\ Cardinality(keys) = 1
                       /\ \A e \in TriggersOf(registry', SchedulerJobId(reqs[r].job_id)) :
                             /\ e.trigger.kind = "interval"
                             /\ e.trigger.fields[1] \in keys
                             /\ e.trigger.n = config[e.trigger.fields[1]]
                 /\ keys = {}
                    => /\ reqs'[r].pc = "add_job_raised"
                       /\ reqs'[r].error = "ValueError"]_vars
----------------------------------------------------------------------------
(* Further claims about the grid crawlers, checked under SpecCrawl. *)

\* C33: when a Park4NightGridScraper run with resume enabled fixes its work
\* list, the list holds no grid point that has a checkpoint for the region.
C33_ResumeSkipsCheckpointed ==
    [][/\ crawl.kind = "p4n"
       /\ crawl.pc = "load" /\ crawl'.pc \notin {"load", "interrupted"}
       => Elements(crawl'.work) \cap Checkpointed(crawl.checkpoints) = {}]_vars

\* C34: in a Park4NightGridScraper execution the checkpoint of a processed
\* grid point is in grid_progress before the next grid point is fetched, so
\* an execution that is interrupted, or that completes (with or without
\* places), leaves one checkpoint for every grid point it processed.
C34_CheckpointAfterEachPoint ==
    crawl.kind = "p4n" /\ crawl.pc \in {"fetch", "interrupted", "done"}
        => crawl.fetched \subseteq Checkpointed(crawl.checkpoints)

\* run_scraper, lines 119-145: the status the execution record gets from the
\* way scrape and after_scrape ended
ExecutionStatus(c) ==
    IF c.pc = "done" THEN "success"
    ELSE IF c.pc = "failed" THEN "failed"
    ELSE "running"

\* C35: an execution is recorded as 'success' with a non-zero item count only
\* if the storage write of after_scrape was committed.
C35_SuccessMeansStored ==
    ExecutionStatus(crawl) = "success" /\ Len(crawl.results) > 0 => crawl.stored

\* C36: every trigger in the registry belongs to an existing job row: after
\* delete_job, and after delete_scraper has cascaded to the task's jobs, no
\* trigger job_<id> is registered for a deleted job.
C36_TriggersHaveJobs ==
    \A e \in registry : jobs[e.kwargs.job_id].exists

\* The step of a run in which the request for the current box raises
FetchRaised ==
    /\ crawl.pc = "fetch"
    /\ Len(crawl'.trace) > Len(crawl.trace)
    /\ crawl'.fetched = crawl.fetched

----------------------------------------------------------------------------
(* One scheduled job runs CamperContactGridScraper again and again over    *)
(* the same region with resume enabled and max_grid_boxes = k, each run    *)
(* starting when the one before has ended (max_instances=1).  Requests and *)
(* checkpoint writes may fail; the checkpoints are read without failure.   *)

\* params["max_grid_boxes"] of the job
BoxLimits == {1, 2}

\* run_scraper reaches scrape(params) once more, with the params of the job
RepeatRun ==
    /\ crawl.pc \in {"idle", "done", "failed"}
    /\ crawl' = [crawl EXCEPT !.runs = IF @ < MaxRuns THEN @ + 1 ELSE @,
                              !.work = <<>>, !.idx = 0, !.all_markers = <<>>,
                              !.seen = {}, !.grid_progress = <<>>, !.results = <<>>,
                              !.trace = <<>>, !.fetched = {}, !.save_failed = {},
                              !.load_failed = FALSE, !.returned = FALSE,
                              !.stored = FALSE, !.again = FALSE,
                              !.clean = FALSE, !.pc = "load"]
    /\ UNCHANGED <<now, scrapers, jobs, nextJobId, registry, reqs, calls, executions, subscribers, progress, tracker>>

InitProgress ==
    /\ now = 0 /\ scrapers = [s \in ScraperIds |-> NoScraper] /\ jobs = [j \in JobIds |-> NoJob]
    /\ nextJobId = 1 /\ registry = {} /\ reqs = [r \in ReqIds |-> IdleReq]
    /\ calls = <<>> /\ executions = <<>>
    /\ subscribers = EmptyDict /\ progress = {}
    /\ tracker = IdleTracker
    /\ \E source \in [Partitions -> IdSeqs], k \in BoxLimits,
          checkpoints \in {<<>>, <<Checkpoint(OtherRegion, 1)>>} :
          crawl = [InitialCrawl("cc", source, checkpoints) EXCEPT !.limit = k]

NextProgress ==
    \/ RepeatRun
    \/ LoadProgressOk
    \/ FetchOk
    \/ FetchRaises
    \/ SaveOk
    \/ SaveFails
    \/ \E delay \in {MinDelay, MaxDelay} : Sleep(delay)
    \/ StoreOk
    \/ StoreFails

\* Every step that can be taken is taken in the end, and a request and a
\* checkpoint write that are tried again and again succeed in the end
SpecProgress ==
    /\ InitProgress /\ [][NextProgress]_vars
    /\ WF_vars(NextProgress)
    /\ SF_vars(FetchOk)
    /\ SF_vars(SaveOk)

\* The generated partitions without a checkpoint, in generation order
Unprocessed(checkpoints) ==
    SelectSeq(GridBoxes, LAMBDA box : box \notin Checkpointed(checkpoints))

FirstK(seq, k) == SubSeq(seq, 1, IF k < Len(seq) THEN k ELSE Len(seq))

\* Every partition of the region is checkpointed and a run found nothing to do
CrawlComplete ==
    /\ Checkpointed(crawl.checkpoints) = Partitions
    /\ crawl.returned /\ crawl.work = <<>>

----------------------------------------------------------------------------
(* Further claim about the progress tracker, checked under SpecTracker.    *)

\* The observer map and the snapshot map of the tracker
TrackerMaps(tr) == <<tr.has_key, tr.subscribers, tr.progress>>

\* C39: while update_progress is suspended in a delivery it holds the lock,
\* it iterates over observers of the set, and no step of any task changes the
\* observer map or the snapshot map until the iteration has ended; and every
\* step that changes either map is a step of the task that holds the lock, or
\* of a task that took the free lock in that step.
C39_MapsChangeUnderLock ==
    [][/\ \A t \in Updaters : tracker.task[t].pc = "send" =>
             /\ tracker.locked_by = t
             /\ tracker.task[t].todo \subseteq tracker.subscribers
             /\ tracker'.task[t].pc = "send" => TrackerMaps(tracker') = TrackerMaps(tracker)
             /\ tracker'.task[t] = tracker.task[t] => TrackerMaps(tracker') = TrackerMaps(tracker)
       /\ TrackerMaps(tracker') # TrackerMaps(tracker) =>
             \/ tracker.locked_by = NoTask /\ tracker.waiters = <<>>
             \/ /\ tracker.locked_by # NoTask
                /\ tracker'.task[tracker.locked_by] # tracker.task[tracker.locked_by]]_vars

\* One task is suspended in a delivery to two observers while a subscribed
\* observer has called unsubscribe, another task has called update_progress
\* and both wait for the lock
C39_Witness ==
    \E t1, t2 \in Updaters, w \in Sockets :
        /\ tracker.task[t1].pc = "send"
        /\ Cardinality(tracker.task[t1].todo) + Cardinality(tracker.task[t1].dead) = 2
        /\ tracker.task[t1].todo # {}
        /\ tracker.task[w].pc = "wait" /\ tracker.task[w].op = "unsubscribe"
        /\ tracker.task[t2].pc = "wait" /\ tracker.task[t2].op = "update"
        /\ w \in tracker.subscribers

----------------------------------------------------------------------------
(* Partition generation: scrape reads the bounds of a custom region and    *)
(* grid_spacing from the params and calls _generate_grid, whose two nested *)
(* while loops run without an await.  Coordinates and the spacing are      *)
(* whole numbers of degrees, which round(x, 4) leaves as they are.  crawl  *)
(* holds the locals of the call; every test of a loop condition is a step. *)

\* The latitudes and longitudes a job's params can name
Coords == 0..2

\* params.get("grid_spacing", 0.5): nothing checks the value
Spacings == {0 - 1, 0, 1, 2}

\* The loop-condition tests followed within one call
MaxSteps == 20

\* while current < max in CamperContactGridScraper, while current <= max in
\* Park4NightGridScraper
InRange(kind, current, max) ==
    IF kind = "cc" THEN current < max ELSE current <= max

Smaller(a, b) == IF a < b THEN a ELSE b

\* What _generate_grid appends for the current position: a box in
\* CamperContactGridScraper, a point in Park4NightGridScraper
GridElement(c) ==
    IF c.kind = "cc"
    THEN <<c.current_lat, Smaller(c.current_lat + c.grid_spacing, c.lat_max),
           c.current_lon, Smaller(c.current_lon + c.grid_spacing, c.lon_max)>>
    ELSE <<c.current_lat, c.current_lon>>

\* scrape(params) is entered with the params of the job
GridCall(kind, lat_min, lat_max, lon_min, lon_max, grid_spacing) ==
    [kind |-> kind, pc |-> "scrape", steps |-> 0,
     lat_min |-> lat_min, lat_max |-> lat_max, lon_min |-> lon_min, lon_max |-> lon_max,
     grid_spacing |-> grid_spacing,
     current_lat |-> 0, current_lon |-> 0, grid |-> <<>>]

\* The check of the custom bounds: CamperContact tests their truth, so a bound
\* of 0 raises ValueError; Park4Night tests for None.  Then _generate_grid
\* starts at lat_min
ScrapeBounds ==
    /\ crawl.pc = "scrape"
    /\ crawl' = IF crawl.kind = "cc"
                   /\ 0 \in {crawl.lat_min, crawl.lat_max, crawl.lon_min, crawl.lon_max}
                THEN [crawl EXCEPT !.pc = "raised"]
                ELSE [crawl EXCEPT !.pc = "lat_loop", !.current_lat = crawl.lat_min]
    /\ UNCHANGED <<now, scrapers, jobs, nextJobId, registry, reqs, calls, executions, subscribers, progress, tracker>>

\* The test of the outer while loop
LatLoop ==
    /\ crawl.pc = "lat_loop"
    /\ crawl.steps < MaxSteps
    /\ crawl' = IF InRange(crawl.kind, crawl.current_lat, crawl.lat_max)
                THEN [crawl EXCEPT !.steps = @ + 1, !.pc = "lon_loop",
                                   !.current_lon = crawl.lon_min]
                ELSE [crawl EXCEPT !.steps = @ + 1, !.pc = "generated"]
    /\ UNCHANGED <<now, scrapers, jobs, nextJobId, registry, reqs, calls, executions, subscribers, progress, tracker>>

\* The test of the inner while loop and, when it holds, the body: an element
\* is appended and current_lon += grid_spacing; when it fails,
\* current_lat += grid_spacing
LonLoop ==
    /\ crawl.pc = "lon_loop"
    /\ crawl.steps < MaxSteps
    /\ crawl' = IF InRange(crawl.kind, crawl.current_lon, crawl.lon_max)
                THEN [crawl EXCEPT !.steps = @ + 1,
                                   !.grid = Append(@, GridElement(crawl)),
                                   !.current_lon = @ + crawl.grid_spacing]
                ELSE [crawl EXCEPT !.steps = @ + 1, !.pc = "lat_loop",
                                   !.current_lat = @ + crawl.grid_spacing]
    /\ UNCHANGED <<now, scrapers, jobs, nextJobId, registry, reqs, calls, executions, subscribers, progress, tracker>>

InitGrid ==
    /\ now = 0 /\ scrapers = [s \in ScraperIds |-> NoScraper] /\ jobs = [j \in JobIds |-> NoJob]
    /\ nextJobId = 1 /\ registry = {} /\ reqs = [r \in ReqIds |-> IdleReq]
    /\ calls = <<>> /\ executions = <<>>
    /\ subscribers = EmptyDict /\ progress = {}
    /\ tracker = IdleTracker
    /\ \E kind \in {"cc", "p4n"}, lat_min, lat_max, lon_min, lon_max \in Coords,
          grid_spacing \in Spacings :
          crawl = GridCall(kind, lat_min, lat_max, lon_min, lon_max, grid_spacing)

NextGrid ==
    \/ ScrapeBounds
    \/ LatLoop
    \/ LonLoop

\* The interpreter keeps running the call
SpecGrid == InitGrid /\ [][NextGrid]_vars /\ WF_vars(NextGrid)

\* C40: for every bounds and every grid_spacing that scrape passes on from the
\* params, a grid_spacing of zero or less included, the call leaves partition
\* generation: _generate_grid returns its list (or scrape raised before it).
C40_GridGenerationTerminates ==
    <>(crawl.pc \in {"generated", "raised"})

\* With a grid_spacing above zero the call leaves partition generation
C40_PositiveSpacingTerminates ==
    crawl.grid_spacing > 0 ~> crawl.pc \in {"generated", "raised"}

====
